---- MODULE Spec2Model ----
(***************************************************************************)
(* State-machine model of the ImGuizmo add-on (src/ImGuizmo.cpp,           *)
(* src/ImGuizmo.h): the Begin/End scope, the per-operation behaviours      *)
(* (Translate, Rotate, Scale, BoundsScale), the convenience call           *)
(* Manipulate, and the host's frame loop that feeds them.                  *)
(*                                                                         *)
(* Numbers.  Every real number of the program (matrix entries, positions,  *)
(* scale factors, snap steps) is a fixed-point integer: the real x is the  *)
(* integer x * One.  Screen coordinates are whole pixels.  Angles are      *)
(* whole degrees.  Matrices are affine: three columns with w = 0 and a     *)
(* translation column with w = 1, stored as <<c0, c1, c2, c3>>, column     *)
(* major as in glm; the model's matrices have axis-aligned, mutually       *)
(* orthogonal columns, on which the integer square root is exact.          *)
(*                                                                         *)
(* Geometry.  The camera is fixed.  What the mouse ray hits (the result of *)
(* IntersectRayPlane along g.Ray) and which handles lie under the mouse    *)
(* (the screen-space distance tests of the Is*Hovered functions) depend on *)
(* the mouse position and the camera, so they are inputs of the operation  *)
(* that evaluates them; the logic the code applies to them (lock checks,   *)
(* priorities, projection, snap, composition) is modelled as written.      *)
(***************************************************************************)
EXTENDS Integers, Sequences, FiniteSets, TLC

\* ---------------------------------------------------------------------------
\* Fixed point and bounds
\* ---------------------------------------------------------------------------

\* Fixed-point unit: the real 1.0.
One == 1000

\* Largest absolute translation coordinate, in whole world units.
MaxCoord == 2

\* Number of frames of the host's loop that are explored.
MaxFrames == 5

\* glm::epsilon<float>() (about 1.19e-7) is below the fixed-point resolution.
kEpsilon == 0

\* The lower clamp 0.001f of a scale factor.
kMinScale == 1

\* snap_tension, 0.5f, as a fraction SnapTensionNum / SnapTensionDen.
SnapTensionNum == 1

SnapTensionDen == 2

\* ---------------------------------------------------------------------------
\* Enumerations of ImGuizmo.h
\* ---------------------------------------------------------------------------

ImGuizmoMode_World == 0

ImGuizmoMode_Local == 1

ImGuizmoOperation_None == 0

ImGuizmoOperation_Translate == 1

ImGuizmoOperation_Rotate == 2

ImGuizmoOperation_Scale == 3

ImGuizmoOperation_BoundsScale == 4

ImGuizmoAxisFlags_None == 0

ImGuizmoAxisFlags_X == 1

ImGuizmoAxisFlags_Y == 2

ImGuizmoAxisFlags_Z == 4

ImGuizmoAxisFlags_YZ == 6

ImGuizmoAxisFlags_ZX == 5

ImGuizmoAxisFlags_XY == 3

ImGuizmoAxisFlags_ALL == 7

ImGuizmoConfigFlags_None == 0

ImGuizmoConfigFlags_CloakOnManipulate == 1

ImGuizmoConfigFlags_HideLocked == 2

ImGuizmoConfigFlags_HasReversing == 4

\* ---------------------------------------------------------------------------
\* Arithmetic
\* ---------------------------------------------------------------------------

Abs(x) == IF x < 0 THEN -x ELSE x

Max(a, b) == IF a < b THEN b ELSE a

\* C division of fixed-point numbers truncates toward zero.
TruncDiv(a, b) ==
  IF (a >= 0) = (b > 0) THEN Abs(a) \div Abs(b) ELSE -(Abs(a) \div Abs(b))

\* Product and quotient of two fixed-point numbers.
FMul(a, b) == TruncDiv(a * b, One)

FDiv(a, b) == TruncDiv(a * One, b)

\* glm::fmod: remainder with the sign of the dividend.
Fmod(value, snap) == IF value >= 0 THEN value % snap ELSE -((-value) % snap)

\* Bitwise and of two 3-bit flag words.
BitAnd(a, b) ==
  (IF (a % 2 = 1) /\ (b % 2 = 1) THEN 1 ELSE 0)
  + (IF ((a \div 2) % 2 = 1) /\ ((b \div 2) % 2 = 1) THEN 2 ELSE 0)
  + (IF ((a \div 4) % 2 = 1) /\ ((b \div 4) % 2 = 1) THEN 4 ELSE 0)

BitOr(a, b) == a + b - BitAnd(a, b)

RECURSIVE ISqrtNewton(_, _)
ISqrtNewton(n, x) ==
  LET y == (x + (n \div x)) \div 2
  IN IF y >= x THEN x ELSE ISqrtNewton(n, y)

\* Integer square root (floor).
ISqrt(n) == IF n <= 0 THEN 0 ELSE ISqrtNewton(n, n)

\* Sequencing of statements: the value of F at the result e of the statement
\* before.
Then(e, F(_)) == CHOOSE r \in {F(x) : x \in {e}} : TRUE

\* ---------------------------------------------------------------------------
\* Vectors and matrices (glm)
\* ---------------------------------------------------------------------------

Axes == 0..2

Vec3(x, y, z) == <<x, y, z>>

ZeroVec == <<0, 0, 0>>

OneVec == <<One, One, One>>

\* kUnitDirections[axis_idx]
kUnitDirections(axis_idx) == [i \in 1..3 |-> IF i = axis_idx + 1 THEN One ELSE 0]

VAdd(a, b) == [i \in 1..3 |-> a[i] + b[i]]

VSub(a, b) == [i \in 1..3 |-> a[i] - b[i]]

VNeg(a) == [i \in 1..3 |-> -a[i]]

VAbs(a) == [i \in 1..3 |-> Abs(a[i])]

\* vector * scalar
VScale(a, s) == [i \in 1..3 |-> FMul(a[i], s)]

\* component-wise product
VMul(a, b) == [i \in 1..3 |-> FMul(a[i], b[i])]

Dot(a, b) == TruncDiv(a[1] * b[1] + a[2] * b[2] + a[3] * b[3], One)

Length(a) == ISqrt(a[1] * a[1] + a[2] * a[2] + a[3] * a[3])

\* glm::normalize; the zero vector has no direction (NaN in the program), the
\* model never normalizes it.
Normalize(a) == [i \in 1..3 |-> FDiv(a[i], Length(a))]

IdentityMat == <<kUnitDirections(0), kUnitDirections(1), kUnitDirections(2), ZeroVec>>

\* glm::translate(v)
TranslateMat(v) == <<kUnitDirections(0), kUnitDirections(1), kUnitDirections(2), v>>

\* glm::scale(v)
ScaleMat(v) == <<<<v[1], 0, 0>>, <<0, v[2], 0>>, <<0, 0, v[3]>>, ZeroVec>>

\* matrix * vec4{v, 0}
MulDir(m, v) ==
  [i \in 1..3 |-> TruncDiv(m[1][i] * v[1] + m[2][i] * v[2] + m[3][i] * v[3], One)]

\* matrix * vec4{v, 1}
MulPoint(m, v) == VAdd(MulDir(m, v), m[4])

\* matrix * matrix
MatMul(a, b) == <<MulDir(a, b[1]), MulDir(a, b[2]), MulDir(a, b[3]), MulPoint(a, b[4])>>

\* Each of the three axis columns normalized.
NormalizeAxes(m) == <<Normalize(m[1]), Normalize(m[2]), Normalize(m[3]), m[4]>>

\* glm::inverse of a matrix whose axis columns are unit length and mutually
\* orthogonal: the transposed rotation, and the translation carried back.
InverseOrtho(m) ==
  LET r == <<<<m[1][1], m[2][1], m[3][1]>>,
             <<m[1][2], m[2][2], m[3][2]>>,
             <<m[1][3], m[2][3], m[3][3]>>, ZeroVec>>
  IN <<r[1], r[2], r[3], VNeg(MulDir(r, m[4]))>>

\* ---------------------------------------------------------------------------
\* Snap
\* ---------------------------------------------------------------------------

\* A null snap pointer.
NoSnap == <<>>

\* CalculateSnap(float &value, float snap): the new value.  The two ratio
\* tests are cross-multiplied, so they are exact.
CalculateSnap(value, snap) ==
  IF snap <= kEpsilon THEN value
  ELSE LET modulo == Fmod(value, snap)
       IN IF Abs(modulo) * SnapTensionDen < SnapTensionNum * snap
            THEN value - modulo
          ELSE IF Abs(modulo) * SnapTensionDen > (SnapTensionDen - SnapTensionNum) * snap
            THEN value - modulo + snap * (IF value < 0 THEN -1 ELSE 1)
          ELSE value

\* CalculateSnap(glm::vec3 &value, const float *snap)
CalculateSnapVec(value, snap) == [i \in 1..3 |-> CalculateSnap(value[i], snap[i])]

\* ---------------------------------------------------------------------------
\* Axis and plane flags
\* ---------------------------------------------------------------------------

HasSingleAxis(flags) ==
  flags = ImGuizmoAxisFlags_X \/ flags = ImGuizmoAxisFlags_Y \/ flags = ImGuizmoAxisFlags_Z

\* GetAxisIdx(flags, around); the default case asserts, -1 stands for it.
GetAxisIdx(flags, around) ==
  CASE flags = ImGuizmoAxisFlags_X -> (IF around THEN 2 ELSE 0)
    [] flags = ImGuizmoAxisFlags_Y -> 1
    [] flags = ImGuizmoAxisFlags_Z -> (IF around THEN 0 ELSE 2)
    [] OTHER -> -1

AxisToFlag(axis_idx, around) ==
  CASE axis_idx = 0 -> (IF around THEN ImGuizmoAxisFlags_Z ELSE ImGuizmoAxisFlags_X)
    [] axis_idx = 1 -> ImGuizmoAxisFlags_Y
    [] axis_idx = 2 -> (IF around THEN ImGuizmoAxisFlags_X ELSE ImGuizmoAxisFlags_Z)
    [] OTHER -> -1

HasPlane(flags) ==
  IF flags = ImGuizmoAxisFlags_ALL THEN FALSE
  ELSE flags = ImGuizmoAxisFlags_YZ \/ flags = ImGuizmoAxisFlags_ZX
       \/ flags = ImGuizmoAxisFlags_XY

GetPlaneIdx(flags) ==
  CASE flags = ImGuizmoAxisFlags_YZ -> 0
    [] flags = ImGuizmoAxisFlags_ZX -> 1
    [] flags = ImGuizmoAxisFlags_XY -> 2
    [] OTHER -> -1

PlaneToFlags(plane_idx) ==
  CASE plane_idx = 0 -> ImGuizmoAxisFlags_YZ
    [] plane_idx = 1 -> ImGuizmoAxisFlags_ZX
    [] plane_idx = 2 -> ImGuizmoAxisFlags_XY
    [] OTHER -> -1

\* ---------------------------------------------------------------------------
\* Host: addresses, window, camera
\* ---------------------------------------------------------------------------

\* A 64-bit address is the pair <<high 32 bits, low 32 bits>>.
NullAddr == <<0, 0>>

\* The model matrices the host owns; the third lies 4 GiB above the first.
MatrixAddrs == {<<0, 4096>>, <<0, 8192>>, <<1, 4096>>}

\* static_cast<ImGuiID>(reinterpret_cast<long long>(model_matrix)): the low
\* 32 bits of the address.
GizmoIdOf(model_matrix) == model_matrix[2]

GizmoIds == {GizmoIdOf(a) : a \in MatrixAddrs}

\* A null ImGuizmoWidget pointer.
NullGizmo == -1

\* CalculateViewport(): the content region of the host window, which does not
\* move; a rectangle is its horizontal extent in pixels.
CalculateViewport == [Min |-> 0, Max |-> 200]

\* ImRect::Contains
RectContains(bb, p) == p >= bb.Min /\ p < bb.Max

\* Horizontal mouse positions the host reports: two inside the window's content
\* region, one outside.
MouseXs == {100, 150, 300}

\* g.Camera.Forward of the fixed camera.
CameraForward == kUnitDirections(2)

\* gizmo->ScreenFactor: constant, the camera being fixed and orthographic.
ScreenFactor == One

\* ---------------------------------------------------------------------------
\* ImGuizmoWidget and ImGuizmoContext
\* ---------------------------------------------------------------------------

\* ImGuizmoWidget(ImGuiID id): the member initializers.
NewWidget(id) ==
  [ID |-> id,
   SourceModelMatrix |-> IdentityMat,
   ModelMatrix |-> IdentityMat,
   InversedModelMatrix |-> IdentityMat,
   Mode |-> ImGuizmoMode_Local,
   ActiveOperation |-> ImGuizmoOperation_None,
   ActiveManipulationFlags |-> ImGuizmoAxisFlags_None,
   LockedAxesFlags |-> ImGuizmoAxisFlags_None,
   Dirty |-> FALSE,
   TranslationPlane |-> ZeroVec,
   TranslationPlaneOrigin |-> ZeroVec,
   ModelRelativeOrigin |-> ZeroVec,
   DragTranslationOrigin |-> ZeroVec,
   LastTranslationDelta |-> ZeroVec,
   ModelScaleOrigin |-> OneVec,
   RotationAngle |-> 0,
   RotationAngleOrigin |-> 0,
   Scale |-> OneVec,
   LastScale |-> OneVec,
   ScaleValueOrigin |-> OneVec]

\* ImGuizmoBounds: the member initializers.
NewBounds ==
  [Anchor |-> ZeroVec, LocalPivot |-> ZeroVec, Pivot |-> ZeroVec,
   ActivePlane |-> -1, ActiveBoundIdx |-> -1]

\* ImGuizmoContext: the member initializers.  Gizmos maps an ID to its widget
\* once CreateNewGizmo has made it; Created is the set of IDs in GizmosById.
NewContext ==
  [ConfigFlags |-> ImGuizmoConfigFlags_None,
   Viewport |-> [Min |-> 0, Max |-> 0],
   DragOrigin |-> 0,
   Created |-> {},
   CurrentGizmo |-> NullGizmo,
   ActiveGizmo |-> NullGizmo,
   Bounds |-> NewBounds,
   LockedModelMatrix |-> NullAddr,
   BackupModelMatrix |-> IdentityMat]

\* A program state handed through the calls of one operation:
\* [g: context, gizmos: ID -> widget, mem: address -> matrix].
GetCurrentGizmo(s) == s.gizmos[s.g.CurrentGizmo]

SetCurrentGizmo(s, w) == [s EXCEPT !.gizmos[s.g.CurrentGizmo] = w]

\* FindGizmoById: whether GizmosById holds the id.
FindGizmoById(s, id) == id \in s.g.Created

\* CreateNewGizmo
CreateNewGizmo(s, id) ==
  [s EXCEPT !.gizmos[id] = NewWidget(id), !.g.Created = @ \cup {id}]

\* Load that keeps the model's axes in World mode too.
Load_AlwaysLocal(w, model) ==
  LET mm == NormalizeAxes(model)
  IN [w EXCEPT !.SourceModelMatrix = model,
               !.ModelMatrix = mm,
               !.ModelScaleOrigin = <<Length(model[1]), Length(model[2]), Length(model[3])>>,
               !.InversedModelMatrix = InverseOrtho(mm)]

\* ImGuizmoWidget::Load
Load(w, model) ==
  LET mm == IF w.Mode = ImGuizmoMode_Local THEN NormalizeAxes(model)
            ELSE TranslateMat(model[4])
  IN [w EXCEPT !.SourceModelMatrix = model,
               !.ModelMatrix = mm,
               !.ModelScaleOrigin = <<Length(model[1]), Length(model[2]), Length(model[3])>>,
               !.InversedModelMatrix = InverseOrtho(mm)]

\* ---------------------------------------------------------------------------
\* Hover queries
\* ---------------------------------------------------------------------------

\* What lies under the mouse, by the screen-space tests alone: the core
\* circle, the translate planes, the translate/scale axes, the rotation rings
\* and the screen ring.
NoGeo == [core |-> FALSE, planes |-> {}, axes |-> {}, rotAxes |-> {}, ring |-> FALSE]

CanActivate(s, io) ==
  io.WindowHovered /\ RectContains(s.g.Viewport, io.MousePos)

IsCoreHovered(s, geo) ==
  IF GetCurrentGizmo(s).LockedAxesFlags = ImGuizmoAxisFlags_ALL THEN FALSE
  ELSE geo.core

IsAxisHovered(s, geo, axis_idx) ==
  IF BitAnd(GetCurrentGizmo(s).LockedAxesFlags, AxisToFlag(axis_idx, FALSE)) # 0
    THEN FALSE
  ELSE axis_idx \in geo.axes

IsPlaneHovered(s, geo, plane_idx) ==
  IF BitAnd(GetCurrentGizmo(s).LockedAxesFlags, PlaneToFlags(plane_idx)) # 0
    THEN FALSE
  ELSE plane_idx \in geo.planes

IsRotationAxisHovered(s, geo, axis_idx) ==
  IF GetCurrentGizmo(s).LockedAxesFlags = AxisToFlag(axis_idx, FALSE) THEN FALSE
  ELSE axis_idx \in geo.rotAxes

IsRotationRingHovered(s, geo) ==
  IF GetCurrentGizmo(s).LockedAxesFlags = ImGuizmoAxisFlags_ALL THEN FALSE
  ELSE geo.ring

\* The first index of a loop "for (i = 0; i < 3; ++i) if (P(i)) { ...; break; }"
\* that satisfies P, or -1.
FirstOf(hit) == IF hit = {} THEN -1 ELSE CHOOSE i \in hit : \A j \in hit : i <= j

FindTranslationHover(s, io, geo) ==
  IF ~CanActivate(s, io) THEN ImGuizmoAxisFlags_None
  ELSE IF IsCoreHovered(s, geo) THEN ImGuizmoAxisFlags_ALL
  ELSE LET plane_idx == FirstOf({p \in Axes : IsPlaneHovered(s, geo, p)})
           axis_idx == FirstOf({a \in Axes : IsAxisHovered(s, geo, a)})
       IN IF plane_idx # -1 THEN PlaneToFlags(plane_idx)
          ELSE IF axis_idx # -1 THEN AxisToFlag(axis_idx, FALSE)
          ELSE ImGuizmoAxisFlags_None

FindRotationHover(s, io, geo) ==
  IF ~CanActivate(s, io) THEN ImGuizmoAxisFlags_None
  ELSE IF IsRotationRingHovered(s, geo) THEN ImGuizmoAxisFlags_ALL
  ELSE LET axis_idx == FirstOf({a \in Axes : IsRotationAxisHovered(s, geo, a)})
       IN IF axis_idx # -1 THEN AxisToFlag(axis_idx, FALSE)
          ELSE ImGuizmoAxisFlags_None

FindScaleHover(s, io, geo) ==
  IF ~CanActivate(s, io) THEN ImGuizmoAxisFlags_None
  ELSE IF IsCoreHovered(s, geo) THEN ImGuizmoAxisFlags_ALL
  ELSE LET axis_idx == FirstOf({a \in Axes : IsAxisHovered(s, geo, a)})
       IN IF axis_idx # -1 THEN AxisToFlag(axis_idx, FALSE)
          ELSE ImGuizmoAxisFlags_None

\* ---------------------------------------------------------------------------
\* Behaviour
\* ---------------------------------------------------------------------------

\* GizmoBehavior that does not look at g.ActiveGizmo.
GizmoBehavior_AnyGizmoActive(s, io, operation, hover_in) ==
  LET gizmo == GetCurrentGizmo(s)
      hover_flags ==
        IF gizmo.ActiveOperation # operation
                /\ gizmo.ActiveOperation # ImGuizmoOperation_None
          THEN ImGuizmoAxisFlags_None
        ELSE IF gizmo.ActiveManipulationFlags # ImGuizmoAxisFlags_None
          THEN gizmo.ActiveManipulationFlags
        ELSE hover_in
      pressed == hover_flags # ImGuizmoAxisFlags_None /\ io.MouseClicked0
      s1 == IF pressed
              THEN [SetCurrentGizmo(s, [gizmo EXCEPT !.ActiveOperation = operation,
                                                     !.ActiveManipulationFlags = hover_flags])
                      EXCEPT !.g.ActiveGizmo = s.g.CurrentGizmo]
            ELSE s
      g1 == GetCurrentGizmo(s1)
      matches == g1.ActiveManipulationFlags = hover_flags
                 /\ g1.ActiveManipulationFlags # ImGuizmoAxisFlags_None
      held == matches /\ io.MouseDown0
      s2 == IF matches /\ ~io.MouseDown0
              THEN [SetCurrentGizmo(s1, [g1 EXCEPT !.ActiveManipulationFlags =
                                                     ImGuizmoAxisFlags_None])
                      EXCEPT !.g.ActiveGizmo = NullGizmo]
            ELSE s1
  IN [s |-> s2, hover_flags |-> hover_flags, pressed |-> pressed, held |-> held]

\* GizmoBehavior that does not look at the active operation of the gizmo.
GizmoBehavior_AnyOperationActive(s, io, operation, hover_in) ==
  LET gizmo == GetCurrentGizmo(s)
      hover_flags ==
        IF s.g.ActiveGizmo # s.g.CurrentGizmo /\ s.g.ActiveGizmo # NullGizmo
          THEN ImGuizmoAxisFlags_None
        ELSE IF gizmo.ActiveManipulationFlags # ImGuizmoAxisFlags_None
          THEN gizmo.ActiveManipulationFlags
        ELSE hover_in
      pressed == hover_flags # ImGuizmoAxisFlags_None /\ io.MouseClicked0
      s1 == IF pressed
              THEN [SetCurrentGizmo(s, [gizmo EXCEPT !.ActiveOperation = operation,
                                                     !.ActiveManipulationFlags = hover_flags])
                      EXCEPT !.g.ActiveGizmo = s.g.CurrentGizmo]
            ELSE s
      g1 == GetCurrentGizmo(s1)
      matches == g1.ActiveManipulationFlags = hover_flags
                 /\ g1.ActiveManipulationFlags # ImGuizmoAxisFlags_None
      held == matches /\ io.MouseDown0
      s2 == IF matches /\ ~io.MouseDown0
              THEN [SetCurrentGizmo(s1, [g1 EXCEPT !.ActiveManipulationFlags =
                                                     ImGuizmoAxisFlags_None])
                      EXCEPT !.g.ActiveGizmo = NullGizmo]
            ELSE s1
  IN [s |-> s2, hover_flags |-> hover_flags, pressed |-> pressed, held |-> held]

\* GizmoBehavior(operation, hover_flags, out_held): the state after the call,
\* the hover flags as the call leaves them, and the two results.
GizmoBehavior(s, io, operation, hover_in) ==
  LET gizmo == GetCurrentGizmo(s)
      hover_flags ==
        IF s.g.ActiveGizmo # s.g.CurrentGizmo /\ s.g.ActiveGizmo # NullGizmo
          THEN ImGuizmoAxisFlags_None
        ELSE IF gizmo.ActiveOperation # operation
                /\ gizmo.ActiveOperation # ImGuizmoOperation_None
          THEN ImGuizmoAxisFlags_None
        ELSE IF gizmo.ActiveManipulationFlags # ImGuizmoAxisFlags_None
          THEN gizmo.ActiveManipulationFlags
        ELSE hover_in
      pressed == hover_flags # ImGuizmoAxisFlags_None /\ io.MouseClicked0
      s1 == IF pressed
              THEN [SetCurrentGizmo(s, [gizmo EXCEPT !.ActiveOperation = operation,
                                                     !.ActiveManipulationFlags = hover_flags])
                      EXCEPT !.g.ActiveGizmo = s.g.CurrentGizmo]
            ELSE s
      g1 == GetCurrentGizmo(s1)
      matches == g1.ActiveManipulationFlags = hover_flags
                 /\ g1.ActiveManipulationFlags # ImGuizmoAxisFlags_None
      held == matches /\ io.MouseDown0
      s2 == IF matches /\ ~io.MouseDown0
              THEN [SetCurrentGizmo(s1, [g1 EXCEPT !.ActiveManipulationFlags =
                                                     ImGuizmoAxisFlags_None])
                      EXCEPT !.g.ActiveGizmo = NullGizmo]
            ELSE s1
  IN [s |-> s2, hover_flags |-> hover_flags, pressed |-> pressed, held |-> held]

\* ---------------------------------------------------------------------------
\* Rendering: what an operation adds to the draw list
\* ---------------------------------------------------------------------------

\* IsAxisVisible / IsPlaneVisible: the camera looks at the gizmo from a
\* direction in which every axis and every plane passes its threshold.
IsAxisVisible(axis_idx) == TRUE

IsPlaneVisible(plane_idx) == TRUE

GetAxisAroundIdx(axis_idx) ==
  CASE axis_idx = 0 -> 2
    [] axis_idx = 1 -> 1
    [] axis_idx = 2 -> 0
    [] OTHER -> -1

\* The colours a handle is drawn in: ImGuizmoCol_Inactive, ImGuizmoCol_Hovered,
\* or the colour of its own (ImGuizmoCol_SpecialMove, _AxisX.., _PlaneYZ..).
GetSpecialMoveColor(s, hover_flags) ==
  IF GetCurrentGizmo(s).LockedAxesFlags = ImGuizmoAxisFlags_ALL THEN "Inactive"
  ELSE IF hover_flags = ImGuizmoAxisFlags_ALL THEN "Hovered"
  ELSE "SpecialMove"

\* GetAxisColor that looks at the hover flags before the locks.
GetAxisColor_HoverFirst(s, axis_idx, hover_flags, around) ==
  IF HasSingleAxis(hover_flags) /\ GetAxisIdx(hover_flags, around) = axis_idx
    THEN "Hovered"
  ELSE IF BitAnd(GetCurrentGizmo(s).LockedAxesFlags, AxisToFlag(axis_idx, around)) # 0
    THEN "Inactive"
  ELSE "Axis"

GetAxisColor(s, axis_idx, hover_flags, around) ==
  IF BitAnd(GetCurrentGizmo(s).LockedAxesFlags, AxisToFlag(axis_idx, around)) # 0
    THEN "Inactive"
  ELSE IF HasSingleAxis(hover_flags) /\ GetAxisIdx(hover_flags, around) = axis_idx
    THEN "Hovered"
  ELSE "Axis"

GetPlaneColor(s, plane_idx, hover_flags) ==
  IF BitAnd(GetCurrentGizmo(s).LockedAxesFlags, PlaneToFlags(plane_idx)) # 0
    THEN "Inactive"
  ELSE IF HasPlane(hover_flags) /\ GetPlaneIdx(hover_flags) = plane_idx THEN "Hovered"
  ELSE "Plane"

\* g.ConfigFlags & ImGuizmoConfigFlags_HideLocked
HideLocked(s) == BitAnd(s.g.ConfigFlags, ImGuizmoConfigFlags_HideLocked) # 0

\* Whether the handles of Translate and Scale are drawn, and all rings of
\* Rotate: no manipulation is active, or CloakOnManipulate is not set.
NotCloaked(s) ==
  \/ GetCurrentGizmo(s).ActiveManipulationFlags = ImGuizmoAxisFlags_None
  \/ BitAnd(s.g.ConfigFlags, ImGuizmoConfigFlags_CloakOnManipulate) = 0

\* A handle on the draw list: its shape, the axis the shape belongs to (the
\* axis of an arrow or a scale handle, the normal of a plane, the axis a ring
\* goes around; -1 for the core circle and the screen ring), and its colour.
Handle(shape, axis, color) == [shape |-> shape, axis |-> axis, color |-> color]

RenderCore(s, hover_flags) ==
  IF HideLocked(s) /\ GetCurrentGizmo(s).LockedAxesFlags = ImGuizmoAxisFlags_ALL THEN {}
  ELSE {Handle("core", -1, GetSpecialMoveColor(s, hover_flags))}

RenderTranslateAxis(s, axis_idx, hover_flags) ==
  IF ~IsAxisVisible(axis_idx) THEN {}
  ELSE IF HideLocked(s)
          /\ BitAnd(GetCurrentGizmo(s).LockedAxesFlags, AxisToFlag(axis_idx, FALSE)) # 0
    THEN {}
  ELSE {Handle("arrow", axis_idx, GetAxisColor(s, axis_idx, hover_flags, FALSE))}

RenderPlane(s, plane_idx, hover_flags) ==
  IF ~IsPlaneVisible(plane_idx) THEN {}
  ELSE IF HideLocked(s)
          /\ BitAnd(GetCurrentGizmo(s).LockedAxesFlags, PlaneToFlags(plane_idx)) # 0
    THEN {}
  ELSE {Handle("plane", plane_idx, GetPlaneColor(s, plane_idx, hover_flags))}

\* RenderRotationAxis(axis_idx, circle, hover_flags): the points of the ring
\* lie in the plane of the axes axis_idx and axis_idx + 1 shifted by axis_idx,
\* which is the ring around the axis GetAxisAroundIdx(axis_idx).
RenderRotationAxis(s, axis_idx, hover_flags) ==
  IF HideLocked(s)
     /\ BitAnd(GetCurrentGizmo(s).LockedAxesFlags, AxisToFlag(axis_idx, TRUE)) # 0
    THEN {}
  ELSE {Handle("ring", GetAxisAroundIdx(axis_idx),
               GetAxisColor(s, axis_idx, hover_flags, TRUE))}

RenderRotationRing(s, hover_flags) ==
  IF HideLocked(s) /\ GetCurrentGizmo(s).LockedAxesFlags = ImGuizmoAxisFlags_ALL THEN {}
  ELSE {Handle("screen ring", -1, GetSpecialMoveColor(s, hover_flags))}

RenderScaleAxis(s, axis_idx, hover_flags) ==
  IF ~IsAxisVisible(axis_idx) THEN {}
  ELSE IF HideLocked(s)
          /\ BitAnd(GetCurrentGizmo(s).LockedAxesFlags, AxisToFlag(axis_idx, FALSE)) # 0
    THEN {}
  ELSE {Handle("scale handle", axis_idx, GetAxisColor(s, axis_idx, hover_flags, FALSE))}

\* The handles Translate draws after its behaviour has run.
RenderTranslate(s, hover_flags) ==
  IF NotCloaked(s)
    THEN UNION {RenderTranslateAxis(s, axis_idx, hover_flags) : axis_idx \in Axes}
         \cup UNION {RenderPlane(s, plane_idx, hover_flags) : plane_idx \in Axes}
         \cup RenderCore(s, hover_flags)
  ELSE {}

\* The handles Rotate draws after its behaviour has run.
RenderRotate(s, hover_flags) ==
  IF ~NotCloaked(s)
    THEN IF HasSingleAxis(hover_flags)
           THEN RenderRotationAxis(s, GetAxisIdx(hover_flags, TRUE), hover_flags)
         ELSE IF hover_flags = ImGuizmoAxisFlags_ALL
           THEN RenderRotationRing(s, hover_flags)
         ELSE {}
  ELSE UNION {RenderRotationAxis(s, axis_idx, hover_flags) : axis_idx \in Axes}
       \cup RenderRotationRing(s, hover_flags)

\* The handles Scale draws after its behaviour has run.
RenderScale(s, hover_flags) ==
  IF NotCloaked(s)
    THEN UNION {RenderScaleAxis(s, axis_idx, hover_flags) : axis_idx \in Axes}
         \cup RenderCore(s, hover_flags)
  ELSE {}

\* ---------------------------------------------------------------------------
\* Translation
\* ---------------------------------------------------------------------------

\* BeginTranslation; hit is where the mouse ray meets the translation plane.
BeginTranslation(s, io, hit) ==
  LET gizmo == GetCurrentGizmo(s)
      origin == gizmo.ModelMatrix[4]
  IN [SetCurrentGizmo(s,
        [gizmo EXCEPT !.DragTranslationOrigin = origin,
                      !.TranslationPlaneOrigin = hit,
                      !.ModelRelativeOrigin =
                         VScale(VSub(hit, origin), FDiv(One, ScreenFactor))])
        EXCEPT !.g.BackupModelMatrix = gizmo.SourceModelMatrix,
               !.g.DragOrigin = io.MousePos]

\* The loop over axis_idx left out: no component is reset.
LockTranslation_Unlocked(position, locked, origin) == position

\* The translation column of a matrix with the locked components taken from
\* the drag origin (the loop over axis_idx in ContinueTranslation).
LockTranslation(position, locked, origin) ==
  [i \in 1..3 |-> IF BitAnd(locked, AxisToFlag(i - 1, FALSE)) # 0
                    THEN origin[i] ELSE position[i]]

\* ContinueTranslation(snap)
ContinueTranslation(s, snap, hit) ==
  LET gizmo == GetCurrentGizmo(s)
      hover_flags == gizmo.ActiveManipulationFlags
      position == gizmo.ModelMatrix[4]
      new_position == VSub(hit, VScale(gizmo.ModelRelativeOrigin, ScreenFactor))
      delta0 == VSub(new_position, position)
      delta1 == IF HasSingleAxis(hover_flags)
                  THEN LET axis_value == gizmo.ModelMatrix[GetAxisIdx(hover_flags, FALSE) + 1]
                       IN VScale(axis_value, Dot(axis_value, delta0))
                ELSE delta0
      cumulative_delta == VSub(VAdd(position, delta1), gizmo.DragTranslationOrigin)
      apply_rotation_localy == gizmo.Mode = ImGuizmoMode_Local
                               \/ hover_flags = ImGuizmoAxisFlags_ALL
      source_model_normalized == NormalizeAxes(gizmo.SourceModelMatrix)
      snapped ==
        IF apply_rotation_localy
          THEN MulDir(source_model_normalized,
                      CalculateSnapVec(MulDir(InverseOrtho(source_model_normalized),
                                              cumulative_delta), snap))
        ELSE CalculateSnapVec(cumulative_delta, snap)
      delta == IF snap # NoSnap
                 THEN VSub(VAdd(gizmo.DragTranslationOrigin, snapped), position)
               ELSE delta1
      moved == MatMul(TranslateMat(delta), gizmo.SourceModelMatrix)
      locked == [moved EXCEPT ![4] = LockTranslation(moved[4], gizmo.LockedAxesFlags,
                                                     gizmo.DragTranslationOrigin)]
  IN SetCurrentGizmo(s,
       IF delta # gizmo.LastTranslationDelta
         THEN [gizmo EXCEPT !.ModelMatrix = locked, !.Dirty = TRUE,
                            !.LastTranslationDelta = delta]
       ELSE gizmo)

\* Translate(snap)
Translate(s, io, snap, geo, hit) ==
  Then(GizmoBehavior(s, io, ImGuizmoOperation_Translate,
                     FindTranslationHover(s, io, geo)),
       LAMBDA b :
         Then(IF b.pressed THEN BeginTranslation(b.s, io, hit) ELSE b.s,
              LAMBDA s1 :
                Then(IF b.held THEN ContinueTranslation(s1, snap, hit) ELSE s1,
                     LAMBDA s2 :
                       [s |-> s2, hover_flags |-> b.hover_flags,
                        pressed |-> b.pressed, held |-> b.held,
                        drawn |-> RenderTranslate(s2, b.hover_flags)])))

\* ---------------------------------------------------------------------------
\* Rotation
\* ---------------------------------------------------------------------------

\* glm::radians(snap[0]), in the model's angle unit (whole degrees).
Radians(degrees) == TruncDiv(degrees, One)

\* Cosine and sine of a multiple of 90 degrees, fixed point.
Cos90(angle) ==
  CASE angle % 360 = 0 -> One
    [] angle % 360 = 180 -> -One
    [] OTHER -> 0

Sin90(angle) ==
  CASE angle % 360 = 90 -> One
    [] angle % 360 = 270 -> -One
    [] OTHER -> 0

Cross(a, b) ==
  <<FMul(a[2], b[3]) - FMul(a[3], b[2]),
    FMul(a[3], b[1]) - FMul(a[1], b[3]),
    FMul(a[1], b[2]) - FMul(a[2], b[1])>>

\* glm::rotate(angle, axis) for a unit axis and a multiple of 90 degrees.
RotateMat(angle, axis) ==
  LET c == Cos90(angle)
      sn == Sin90(angle)
      col(j) == LET e == kUnitDirections(j)
                IN VAdd(VAdd(VScale(e, c), VScale(Cross(axis, e), sn)),
                        VScale(axis, FMul(One - c, Dot(axis, e))))
  IN <<col(0), col(1), col(2), ZeroVec>>

\* BuildRotationPlane: the plane's normal (BuildPlane normalizes it).
BuildRotationPlane(s) ==
  LET gizmo == GetCurrentGizmo(s)
      hover_flags == gizmo.ActiveManipulationFlags
  IN IF HasSingleAxis(hover_flags)
       THEN Normalize(gizmo.ModelMatrix[GetAxisIdx(hover_flags, FALSE) + 1])
     ELSE Normalize(VNeg(CameraForward))

\* BeginRotation.  RotationVectorSource becomes the direction the mouse ray
\* hits, so CalculateAngleOnPlane() measures the angle of that direction to
\* itself: RotationAngleOrigin is 0.
BeginRotation(s, io) ==
  LET gizmo == GetCurrentGizmo(s)
  IN [SetCurrentGizmo(s,
        [gizmo EXCEPT !.TranslationPlane = BuildRotationPlane(s),
                      !.RotationAngleOrigin = 0])
        EXCEPT !.g.BackupModelMatrix = gizmo.SourceModelMatrix,
               !.g.DragOrigin = io.MousePos]

\* ContinueRotation(snap); angle is the result of CalculateAngleOnPlane().
ContinueRotation(s, snap, angle) ==
  LET gizmo == GetCurrentGizmo(s)
      RotationAngle == IF snap # NoSnap THEN CalculateSnap(angle, Radians(snap[1]))
                       ELSE angle
      rotation_axis_local_space ==
        Normalize(MulDir(gizmo.InversedModelMatrix, gizmo.TranslationPlane))
      delta_rotation == RotateMat(RotationAngle - gizmo.RotationAngleOrigin,
                                  rotation_axis_local_space)
      source == gizmo.SourceModelMatrix
      rotated ==
        IF gizmo.Mode = ImGuizmoMode_Local
          THEN MatMul(gizmo.ModelMatrix,
                      MatMul(delta_rotation, ScaleMat(gizmo.ModelScaleOrigin)))
        ELSE [MatMul(delta_rotation, [source EXCEPT ![4] = ZeroVec])
                EXCEPT ![4] = source[4]]
  IN SetCurrentGizmo(s,
       IF RotationAngle # gizmo.RotationAngleOrigin
         THEN [gizmo EXCEPT !.RotationAngle = RotationAngle,
                            !.ModelMatrix = rotated,
                            !.Dirty = TRUE,
                            !.RotationAngleOrigin = RotationAngle]
       ELSE [gizmo EXCEPT !.RotationAngle = RotationAngle])

\* Rotate(snap).  In the frame of the press the angle is the origin angle.
Rotate(s, io, snap, geo, angle) ==
  Then(GizmoBehavior(s, io, ImGuizmoOperation_Rotate, FindRotationHover(s, io, geo)),
       LAMBDA b :
         Then(IF b.pressed THEN BeginRotation(b.s, io) ELSE b.s,
              LAMBDA s1 :
                Then(IF b.held
                       THEN ContinueRotation(s1, snap, IF b.pressed THEN 0 ELSE angle)
                     ELSE s1,
                     LAMBDA s2 :
                       [s |-> s2, hover_flags |-> b.hover_flags,
                        pressed |-> b.pressed, held |-> b.held,
                        drawn |-> RenderRotate(s2, b.hover_flags)])))

\* ---------------------------------------------------------------------------
\* Scale
\* ---------------------------------------------------------------------------

\* BeginScale; hit is where the mouse ray meets the scale plane.
BeginScale(s, io, hit) ==
  LET gizmo == GetCurrentGizmo(s)
      origin == gizmo.ModelMatrix[4]
      source == gizmo.SourceModelMatrix
  IN [SetCurrentGizmo(s,
        [gizmo EXCEPT !.Scale = OneVec,
                      !.DragTranslationOrigin = origin,
                      !.TranslationPlaneOrigin = hit,
                      !.ModelRelativeOrigin =
                         VScale(VSub(hit, origin), FDiv(One, ScreenFactor)),
                      !.ScaleValueOrigin =
                         <<Length(source[1]), Length(source[2]), Length(source[3])>>])
        EXCEPT !.g.BackupModelMatrix = gizmo.SourceModelMatrix,
               !.g.DragOrigin = io.MousePos]

\* The denominator of the single-axis ratio of ContinueScale.
ScaleRatioDenominator(s) ==
  LET gizmo == GetCurrentGizmo(s)
      axis_dir == gizmo.ModelMatrix[GetAxisIdx(gizmo.ActiveManipulationFlags, FALSE) + 1]
  IN Dot(axis_dir, VSub(gizmo.TranslationPlaneOrigin, gizmo.ModelMatrix[4]))

\* The loop of ContinueScale without the reset of the locked factors.
LockScale_NoReset(scale, locked) == [i \in 1..3 |-> Max(scale[i], kMinScale)]

\* The loop of ContinueScale that clamps each factor and resets the locked ones.
LockScale(scale, locked) ==
  [i \in 1..3 |-> IF BitAnd(locked, AxisToFlag(i - 1, FALSE)) # 0 THEN One
                  ELSE Max(scale[i], kMinScale)]

\* ContinueScale(snap)
ContinueScale(s, io, snap, hit) ==
  LET gizmo == GetCurrentGizmo(s)
      position == gizmo.ModelMatrix[4]
      new_position == VSub(hit, VScale(gizmo.ModelRelativeOrigin, ScreenFactor))
      delta0 == VSub(new_position, position)
      hover_flags == gizmo.ActiveManipulationFlags
      axis_idx == GetAxisIdx(hover_flags, FALSE)
      axis_dir == gizmo.ModelMatrix[axis_idx + 1]
      delta == VScale(axis_dir, Dot(axis_dir, delta0))
      base_vec == VSub(gizmo.TranslationPlaneOrigin, position)
      ratio == FDiv(Dot(axis_dir, VAdd(base_vec, delta)), Dot(axis_dir, base_vec))
      scale_delta == TruncDiv((io.MousePos - s.g.DragOrigin) * One, 100)
      scale0 == IF HasSingleAxis(hover_flags)
                  THEN [gizmo.Scale EXCEPT ![axis_idx + 1] = Max(ratio, kMinScale)]
                ELSE LET u == Max(One + scale_delta, kMinScale) IN <<u, u, u>>
      scale1 == IF snap # NoSnap
                  THEN CalculateSnapVec(scale0, <<snap[1], snap[1], snap[1]>>)
                ELSE scale0
      scale2 == LockScale(scale1, gizmo.LockedAxesFlags)
  IN SetCurrentGizmo(s,
       IF gizmo.LastScale # scale2
         THEN [gizmo EXCEPT !.Scale = scale2,
                            !.ModelMatrix =
                               MatMul(gizmo.ModelMatrix,
                                      ScaleMat(VMul(scale2, gizmo.ScaleValueOrigin))),
                            !.Dirty = TRUE,
                            !.LastScale = scale2]
       ELSE [gizmo EXCEPT !.Scale = scale2])

\* Scale(snap)
Scale(s, io, snap, geo, hit) ==
  Then(GizmoBehavior(s, io, ImGuizmoOperation_Scale, FindScaleHover(s, io, geo)),
       LAMBDA b :
         Then(IF b.pressed THEN BeginScale(b.s, io, hit) ELSE b.s,
              LAMBDA s1 :
                Then(IF b.held THEN ContinueScale(s1, io, snap, hit) ELSE s1,
                     LAMBDA s2 :
                       [s |-> s2, hover_flags |-> b.hover_flags,
                        pressed |-> b.pressed, held |-> b.held,
                        drawn |-> RenderScale(s2, b.hover_flags)])))

\* ---------------------------------------------------------------------------
\* Bounds scale
\* ---------------------------------------------------------------------------

\* The bounds the host passes to BoundsScale: min x, y, z, max x, y, z.
HostBounds == <<-One, -One, -One, One, One, One>>

\* i >> 1 and i & 1 of a corner index
Shr1(i) == i \div 2

And1(i) == i % 2

Xor1(a, b) == (a + b) % 2

\* BuildOutterPoints: g.Bounds.OutterPoints[plane_idx][i]
OutterPoint(bounds, plane_idx, i) ==
  LET dir1_idx == (plane_idx + 1) % 3
      dir2_idx == (plane_idx + 2) % 3
  IN [k \in 1..3 |->
        IF k = dir1_idx + 1 THEN bounds[dir1_idx + 3 * Shr1(i) + 1]
        ELSE IF k = dir2_idx + 1 THEN bounds[dir2_idx + 3 * Xor1(Shr1(i), And1(i)) + 1]
        ELSE 0]

\* BuildMidPoints: g.Bounds.MidPoints[plane_idx][i]
MidPoint(bounds, plane_idx, i) ==
  LET sum == VAdd(OutterPoint(bounds, plane_idx, i),
                  OutterPoint(bounds, plane_idx, (i + 1) % 4))
  IN [k \in 1..3 |-> TruncDiv(sum[k], 2)]

\* No anchor under the mouse.
NoAnchor == [plane |-> -1, idx |-> -1, outter |-> FALSE]

\* FindHoveredBound.  anchor is the first anchor of the scan (planes in the
\* order of MostVisiblePlanes, invisible planes skipped) that lies within
\* kOutterAnchorSize or kMidAnchorSize of the mouse, or NoAnchor.
FindHoveredBound(s, io, anchor) ==
  IF ~CanActivate(s, io) \/ anchor.plane = -1
    THEN [hover_flags |-> ImGuizmoAxisFlags_None, plane |-> -1, idx |-> -1]
  ELSE LET dir1_idx == (anchor.plane + 1) % 3
           dir2_idx == (anchor.plane + 2) % 3
       IN [hover_flags |->
             IF anchor.outter THEN PlaneToFlags(anchor.plane)
             ELSE AxisToFlag(IF (anchor.idx + 2) % 2 # 0 THEN dir2_idx ELSE dir1_idx,
                             FALSE),
           plane |-> anchor.plane,
           idx |-> anchor.idx]

\* BoundBehavior
BoundBehavior(s, io, hover_in, hovered_plane_idx, hovered_bound_idx) ==
  LET b == GizmoBehavior(s, io, ImGuizmoOperation_BoundsScale, hover_in)
      s1 == IF b.pressed
              THEN [b.s EXCEPT !.g.Bounds.ActivePlane = hovered_plane_idx,
                               !.g.Bounds.ActiveBoundIdx = hovered_bound_idx]
            ELSE b.s
  IN [s |-> s1, hover_flags |-> b.hover_flags, pressed |-> b.pressed, held |-> b.held,
      plane |-> IF b.held THEN s1.g.Bounds.ActivePlane ELSE hovered_plane_idx,
      idx |-> IF b.held THEN s1.g.Bounds.ActiveBoundIdx ELSE hovered_bound_idx]

\* BeginBoundsScale.  With ActivePlane or ActiveBoundIdx -1 the reads of
\* OutterPoints, MidPoints and kUnitDirections are out of range: wild is the
\* value such a read yields.
BeginBoundsScale(s, io, bounds, wild) ==
  LET gizmo == GetCurrentGizmo(s)
      hover_flags == gizmo.ActiveManipulationFlags
      hovered_plane_idx == s.g.Bounds.ActivePlane
      hovered_bound_idx == s.g.Bounds.ActiveBoundIdx
      inRange == hovered_plane_idx # -1 /\ hovered_bound_idx # -1
      opposite_index == IF hovered_bound_idx = -1 THEN 1
                        ELSE (hovered_bound_idx + 2) % 4
      source == gizmo.SourceModelMatrix
      point(i) == IF ~inRange THEN wild
                  ELSE IF HasPlane(hover_flags)
                    THEN OutterPoint(bounds, hovered_plane_idx, i)
                  ELSE MidPoint(bounds, hovered_plane_idx, i)
      Anchor == MulPoint(source, point(hovered_bound_idx))
      LocalPivot == point(opposite_index)
      plane_normal == IF inRange
                        THEN Normalize(MulDir(source, kUnitDirections(hovered_plane_idx)))
                      ELSE wild
  IN [SetCurrentGizmo(s, [gizmo EXCEPT !.TranslationPlane = plane_normal])
        EXCEPT !.g.BackupModelMatrix = source,
               !.g.DragOrigin = io.MousePos,
               !.g.Bounds.Anchor = Anchor,
               !.g.Bounds.LocalPivot = LocalPivot,
               !.g.Bounds.Pivot = MulPoint(source, LocalPivot)]

\* The ratio ContinueBoundsScale applies along one axis.
BoundsRatio(s, bounds, snap, hit, axis_idx) ==
  LET reference_vector == VAbs(VSub(s.g.Bounds.Anchor, s.g.Bounds.Pivot))
      delta == VAbs(VSub(hit, s.g.Bounds.Pivot))
      axis_dir == VAbs(s.g.BackupModelMatrix[axis_idx + 1])
      dt_axis == Dot(axis_dir, reference_vector)
      ratio0 == IF dt_axis > kEpsilon THEN FDiv(Dot(axis_dir, delta), dt_axis) ELSE One
      bound_size == bounds[axis_idx + 4] - bounds[axis_idx + 1]
      length == CalculateSnap(FMul(bound_size, ratio0), snap[axis_idx + 1])
  IN IF snap # NoSnap /\ bound_size > kEpsilon THEN FDiv(length, bound_size)
     ELSE ratio0

\* ContinueBoundsScale(bounds, snap)
ContinueBoundsScale(s, bounds, snap, hit) ==
  LET gizmo == GetCurrentGizmo(s)
      hover_flags == gizmo.ActiveManipulationFlags
      axes == IF HasPlane(hover_flags)
                THEN {(s.g.Bounds.ActivePlane + 1) % 3, (s.g.Bounds.ActivePlane + 2) % 3}
              ELSE {GetAxisIdx(hover_flags, FALSE)}
      scale == [i \in 1..3 |-> IF (i - 1) \in axes
                                 THEN BoundsRatio(s, bounds, snap, hit, i - 1)
                               ELSE One]
      moved == MatMul(MatMul(MatMul(s.g.BackupModelMatrix,
                                    TranslateMat(s.g.Bounds.LocalPivot)),
                             ScaleMat(scale)),
                      TranslateMat(VNeg(s.g.Bounds.LocalPivot)))
  IN SetCurrentGizmo(s, [gizmo EXCEPT !.ModelMatrix = moved, !.Dirty = TRUE])

\* BoundsScale(bounds, snap)
BoundsScale(s, io, bounds, snap, anchor, hit, wild) ==
  Then(FindHoveredBound(s, io, anchor),
       LAMBDA h :
         Then(BoundBehavior(s, io, h.hover_flags, h.plane, h.idx),
              LAMBDA b :
                Then(IF b.pressed THEN BeginBoundsScale(b.s, io, bounds, wild) ELSE b.s,
                     LAMBDA s1 :
                       [s |-> IF b.held THEN ContinueBoundsScale(s1, bounds, snap, hit)
                              ELSE s1,
                        hover_flags |-> b.hover_flags, pressed |-> b.pressed,
                        held |-> b.held, drawn |-> {}])))

\* ---------------------------------------------------------------------------
\* Public interface
\* ---------------------------------------------------------------------------

\* SetConfigFlags
SetConfigFlags(s, flags) == [s EXCEPT !.g.ConfigFlags = flags]

\* SetViewport(position, size), horizontally.
SetViewport(s, position, size) ==
  [s EXCEPT !.g.Viewport = [Min |-> position, Max |-> position + size]]

\* Begin(mode, model_matrix, locked_axes), both assertions holding.  visible is
\* the outcome of the camera test of the return statement.
Begin(s, io, mode, model_matrix, locked_axes, visible) ==
  LET id == GizmoIdOf(model_matrix)
      s0 == IF FindGizmoById(s, id) THEN s ELSE CreateNewGizmo(s, id)
      s1 == [s0 EXCEPT !.g.LockedModelMatrix = model_matrix,
                       !.g.Viewport = CalculateViewport,
                       !.g.CurrentGizmo = id]
      s2 == IF ~io.MouseDown0
              THEN [s1 EXCEPT !.g.DragOrigin = 0,
                              !.g.ActiveGizmo = NullGizmo,
                              !.gizmos[id].ActiveManipulationFlags = ImGuizmoAxisFlags_None]
            ELSE s1
      s3 == IF s2.gizmos[id].ActiveManipulationFlags = ImGuizmoAxisFlags_None
              THEN [s2 EXCEPT !.gizmos[id].ActiveOperation = ImGuizmoOperation_None,
                              !.g.Bounds.ActivePlane = -1,
                              !.g.Bounds.ActiveBoundIdx = -1]
            ELSE s2
      w == [Load([s3.gizmos[id] EXCEPT !.Mode = mode], s3.mem[model_matrix])
              EXCEPT !.LockedAxesFlags = locked_axes]
  IN [s |-> [s3 EXCEPT !.gizmos[id] = w], ret |-> visible]

\* End() that reports an update whatever the dirty mark says.
End_AlwaysUpdated(s, io) ==
  LET gizmo == GetCurrentGizmo(s)
      reverse == BitAnd(s.g.ConfigFlags, ImGuizmoConfigFlags_HasReversing) # 0
                 /\ io.MouseClicked1
                 /\ gizmo.ActiveManipulationFlags # ImGuizmoAxisFlags_None
      g1 == IF reverse
              THEN [gizmo EXCEPT !.ModelMatrix = s.g.BackupModelMatrix,
                                 !.Dirty = TRUE,
                                 !.ActiveManipulationFlags = ImGuizmoAxisFlags_None]
            ELSE gizmo
      s1 == [SetCurrentGizmo(s, [g1 EXCEPT !.Dirty = FALSE])
               EXCEPT !.mem[s.g.LockedModelMatrix] = g1.ModelMatrix]
  IN [s |-> [s1 EXCEPT !.g.LockedModelMatrix = NullAddr], ret |-> TRUE]

\* End(), its assertion holding.
End(s, io) ==
  LET gizmo == GetCurrentGizmo(s)
      reverse == BitAnd(s.g.ConfigFlags, ImGuizmoConfigFlags_HasReversing) # 0
                 /\ io.MouseClicked1
                 /\ gizmo.ActiveManipulationFlags # ImGuizmoAxisFlags_None
      g1 == IF reverse
              THEN [gizmo EXCEPT !.ModelMatrix = s.g.BackupModelMatrix,
                                 !.Dirty = TRUE,
                                 !.ActiveManipulationFlags = ImGuizmoAxisFlags_None]
            ELSE gizmo
      updated == g1.Dirty
      s1 == IF updated
              THEN [SetCurrentGizmo(s, [g1 EXCEPT !.Dirty = FALSE])
                      EXCEPT !.mem[s.g.LockedModelMatrix] = g1.ModelMatrix]
            ELSE SetCurrentGizmo(s, g1)
  IN [s |-> [s1 EXCEPT !.g.LockedModelMatrix = NullAddr], ret |-> updated]

\* What one operation call reads from the mouse: the handles under it (geo),
\* the point its ray hits (hit), the angle on the rotation plane (angle).
OperationCall(s, io, operation, snap, in) ==
  CASE operation = ImGuizmoOperation_Translate -> Translate(s, io, snap, in.geo, in.hit)
    [] operation = ImGuizmoOperation_Rotate -> Rotate(s, io, snap, in.geo, in.angle)
    [] operation = ImGuizmoOperation_Scale -> Scale(s, io, snap, in.geo, in.hit)
    [] OTHER -> [s |-> s, hover_flags |-> 0, pressed |-> FALSE, held |-> FALSE,
                 drawn |-> {}]

\* Manipulate that makes the operation call whatever Begin returned.
Manipulate_IgnoresBegin(s, io, mode, operation, model_matrix, snap, visible, in) ==
  Then(Begin(s, io, mode, model_matrix, ImGuizmoAxisFlags_None, visible),
       LAMBDA b :
         Then(OperationCall(b.s, io, operation, snap, in).s,
              LAMBDA o : End(o, io)))

\* Manipulate(mode, operation, model_matrix, snap)
Manipulate(s, io, mode, operation, model_matrix, snap, visible, in) ==
  Then(Begin(s, io, mode, model_matrix, ImGuizmoAxisFlags_None, visible),
       LAMBDA b :
         Then(IF b.ret THEN OperationCall(b.s, io, operation, snap, in).s ELSE b.s,
              LAMBDA o : End(o, io)))

\* ---------------------------------------------------------------------------
\* Assertions of the public interface
\* ---------------------------------------------------------------------------

\* Begin without the assertion that no scope is open.
BeginAsserts_NoScopeCheck(s, model_matrix) == model_matrix # NullAddr

\* The two IM_ASSERTs of Begin: a model matrix is given, no scope is open.
BeginAsserts(s, model_matrix) ==
  model_matrix # NullAddr /\ s.g.LockedModelMatrix = NullAddr

\* The IM_ASSERT of End: a scope is open.
EndAsserts(s) == s.g.LockedModelMatrix # NullAddr


\* ---------------------------------------------------------------------------
\* View cube
\* ---------------------------------------------------------------------------

kReferenceUp == kUnitDirections(1)

\* A view matrix of the camera that looks at target_pos from the distance
\* length: glm::lookAt(target_pos + forward * length, target_pos, up).
\* ViewManipulate writes only such matrices and keeps target_pos and length,
\* so forward and up stand for the matrix.
LookAt(forward, up) == [forward |-> forward, up |-> up]

\* inversed_view_matrix[0], the right axis of the camera;
\* inversed_view_matrix[2] is view.forward.
ViewRight(view) == Normalize(Cross(view.up, view.forward))

\* The axes that make up the matrix.
ViewAxes(view) == <<ViewRight(view), view.forward>>

\* glm::lerp(x, y, a)
Lerp(x, y, a) == VAdd(VScale(x, One - a), VScale(y, a))

\* The function statics of ViewManipulatorBehavior (active) and of
\* ViewManipulate (animate, target_up, target_forward).
NewViewStatics ==
  [active |-> FALSE, animate |-> FALSE, target_up |-> ZeroVec,
   target_forward |-> ZeroVec]

\* ViewManipulatorBehavior(hovered, out_held)
ViewManipulatorBehavior(statics, io, hovered) ==
  LET active0 == IF ~io.MouseDown1 THEN FALSE ELSE statics.active
      pressed == hovered /\ (io.MouseClicked0 \/ io.MouseClicked1)
      active == IF pressed THEN TRUE ELSE active0
  IN [statics |-> [statics EXCEPT !.active = active], pressed |-> pressed,
      held |-> active /\ io.MouseDown1]

\* No panel of the cube under the mouse.
NoPanel == -1

\* target_forward of the panel whose cube index is cube_idx.
CubeForward(cube_idx) ==
  LET cx == cube_idx \div 9
      cy == (cube_idx - cx * 9) \div 3
      cz == cube_idx % 3
  IN Normalize(<<One - cx * One, One - cy * One, One - cz * One>>)

\* target_up for a target_forward.
CubeUp(view, target_forward) ==
  IF Abs(Dot(target_forward, kReferenceUp)) > One - One \div 100
    THEN LET r == ViewRight(view)
             right == IF Abs(r[1]) > Abs(r[3]) THEN <<r[1], r[2], 0>>
                      ELSE <<0, r[2], r[3]>>
         IN Normalize(Cross(target_forward, Normalize(right)))
  ELSE kReferenceUp

\* Cosine and sine of the angle -mouse_delta.x * drag_sensitivity: a drag by
\* 64 pixels to the left turns by 0.64 rad, cosine 0.8 and sine 0.6.
DragCos(mouse_delta) == IF mouse_delta = 0 THEN One ELSE (4 * One) \div 5

DragSin(mouse_delta) ==
  IF mouse_delta = 0 THEN 0
  ELSE IF mouse_delta < 0 THEN (3 * One) \div 5 ELSE -((3 * One) \div 5)

\* roll * inversed_view_matrix[2] for a horizontal mouse_delta: ry is the
\* identity and rx turns about kReferenceUp.
Roll(forward, mouse_delta) ==
  LET c == DragCos(mouse_delta)
      sn == DragSin(mouse_delta)
  IN <<FMul(c, forward[1]) + FMul(sn, forward[3]), forward[2],
       FMul(c, forward[3]) - FMul(sn, forward[1])>>

\* plane_dir of the drag
DragPlaneDir(view) ==
  LET d == Cross(ViewRight(view), kReferenceUp)
  IN Normalize(<<d[1], 0, d[3]>>)

\* ViewManipulate that leaves a running animation alone while the drag is
\* held.
ViewManipulate_DragKeepsAnimation(statics, io, view, bb, cube_idx, a) ==
  LET hovered == io.WindowHovered /\ RectContains(bb, io.MousePos)
      b == ViewManipulatorBehavior(statics, io, hovered)
      s1 == b.statics
      started == cube_idx # NoPanel /\ ~b.held /\ b.pressed
      s2 == IF started
              THEN [s1 EXCEPT !.target_forward = CubeForward(cube_idx),
                              !.target_up = CubeUp(view, CubeForward(cube_idx)),
                              !.animate = TRUE]
            ELSE s1
      interpolated_forward == Normalize(Lerp(view.forward, s2.target_forward, a))
      s3 == IF s2.animate /\ Length(VSub(interpolated_forward, s2.target_forward)) < 1
              THEN [s2 EXCEPT !.animate = FALSE]
            ELSE s2
      view1 == IF s2.animate THEN LookAt(interpolated_forward, s2.target_up) ELSE view
      dragged == b.held /\ io.MouseDelta # 0
      new_forward == Normalize(Roll(view.forward, io.MouseDelta))
      view2 == IF dragged /\ Dot(DragPlaneDir(view), new_forward) > One \div 20
                 THEN LookAt(new_forward, kReferenceUp)
               ELSE view1
  IN [statics |-> s3, view |-> view2, pressed |-> b.pressed, held |-> b.held,
      started |-> started, animated |-> s2.animate, dragged |-> dragged]

\* ViewManipulate(view_matrix, length, position, size, background_color).
\* bb is the rectangle of position and size; cube_idx is the cube index of the
\* panel the mouse ray hits, or NoPanel; a is speed * io.DeltaTime.
ViewManipulate(statics, io, view, bb, cube_idx, a) ==
  LET hovered == io.WindowHovered /\ RectContains(bb, io.MousePos)
      b == ViewManipulatorBehavior(statics, io, hovered)
      s1 == IF b.held THEN [b.statics EXCEPT !.animate = FALSE] ELSE b.statics
      started == cube_idx # NoPanel /\ ~b.held /\ b.pressed
      s2 == IF started
              THEN [s1 EXCEPT !.target_forward = CubeForward(cube_idx),
                              !.target_up = CubeUp(view, CubeForward(cube_idx)),
                              !.animate = TRUE]
            ELSE s1
      interpolated_forward == Normalize(Lerp(view.forward, s2.target_forward, a))
      s3 == IF s2.animate /\ Length(VSub(interpolated_forward, s2.target_forward)) < 1
              THEN [s2 EXCEPT !.animate = FALSE]
            ELSE s2
      view1 == IF s2.animate THEN LookAt(interpolated_forward, s2.target_up) ELSE view
      dragged == b.held /\ io.MouseDelta # 0
      new_forward == Normalize(Roll(view.forward, io.MouseDelta))
      view2 == IF dragged /\ Dot(DragPlaneDir(view), new_forward) > One \div 20
                 THEN LookAt(new_forward, kReferenceUp)
               ELSE view1
  IN [statics |-> s3, view |-> view2, pressed |-> b.pressed, held |-> b.held,
      started |-> started, animated |-> s2.animate, dragged |-> dragged]
\* ---------------------------------------------------------------------------
\* Inputs of the host
\* ---------------------------------------------------------------------------

Modes == {ImGuizmoMode_World, ImGuizmoMode_Local}

Operations ==
  {ImGuizmoOperation_None, ImGuizmoOperation_Translate, ImGuizmoOperation_Rotate,
   ImGuizmoOperation_Scale, ImGuizmoOperation_BoundsScale}

\* The locked_axes arguments the host passes: none, or X|Y.
LockChoices == {ImGuizmoAxisFlags_None, ImGuizmoAxisFlags_XY}

\* The snap arguments the host passes: null, or 2.0 / 1.5 / 0.0.
Snaps == {NoSnap, <<2 * One, (3 * One) \div 2, 0>>}

\* The flag words the host passes to SetConfigFlags.
ConfigChoices == {ImGuizmoConfigFlags_None, ImGuizmoConfigFlags_HasReversing}

\* Handles under the mouse.
Geos ==
  {NoGeo, [NoGeo EXCEPT !.core = TRUE], [NoGeo EXCEPT !.ring = TRUE]}
  \cup {[NoGeo EXCEPT !.axes = {a}, !.rotAxes = {a}] : a \in Axes}
  \cup {[NoGeo EXCEPT !.planes = {p}] : p \in Axes}
  \cup {[NoGeo EXCEPT !.axes = {0, 1}, !.rotAxes = {0, 1}],
        [NoGeo EXCEPT !.planes = {0}, !.axes = {0}]}

\* Where the mouse ray meets the plane of the manipulation, relative to the
\* position of the model.
HitOffsets ==
  {<<0, 0, 0>>, <<One, 0, 0>>, <<2 * One, 0, 0>>, <<0, One, 0>>, <<One, One, 0>>,
   <<0, 0, One>>}

\* Angles on the rotation plane, in degrees.
Angles == {0, 90}

\* Bound anchors under the mouse: none, a corner of plane XY, the mid anchors
\* of plane XY that scale along X and along Y.
Anchors ==
  {NoAnchor, [plane |-> 2, idx |-> 0, outter |-> TRUE],
   [plane |-> 2, idx |-> 0, outter |-> FALSE], [plane |-> 2, idx |-> 1, outter |-> FALSE]}

\* Values an out-of-range read yields.
WildVecs == {ZeroVec, OneVec}

\* The model matrices of the host when the program starts: an identity at the
\* origin; a matrix rotated by 90 degrees about Z, scaled by 2 along its first
\* axis, at (1, 0, 0).
InitialMatrix(model_matrix) ==
  IF model_matrix = <<0, 4096>> THEN IdentityMat
  ELSE <<<<0, 2 * One, 0>>, <<-One, 0, 0>>, <<0, 0, One>>, <<One, 0, 0>>>>

\* Largest and smallest length of a model axis, as a factor of One.
MaxAxisLen == 2

\* A matrix within the explored range: translation within MaxCoord, axis
\* lengths within [One / MaxAxisLen, One * MaxAxisLen].
InRange(m) ==
  /\ \A i \in 1..3 : Abs(m[4][i]) <= MaxCoord * One
  /\ \A j \in 1..3 : /\ Length(m[j]) * MaxAxisLen >= One
                     /\ Length(m[j]) <= MaxAxisLen * One


\* The view cubes of the host.
Cubes == {1, 2}

\* No view cube.
NoCube == 0

\* The rectangle (position, size) the host passes for a view cube: the cubes
\* lie side by side.
ViewRect(cube) == [Min |-> (cube - 1) * 100, Max |-> cube * 100]

\* The view matrices of the host when the program starts: the first camera
\* looks along -Z, the second looks down from the front at 45 degrees.
InitialView(cube) ==
  IF cube = 1 THEN LookAt(kUnitDirections(2), kReferenceUp)
  ELSE LookAt(Normalize(<<0, One, One>>), kReferenceUp)

\* speed * io.DeltaTime at 20 frames per second.
AnimationStep == One \div 2

\* Cube indices of panels under the mouse: none, the panel of the edge
\* between the +X and +Z faces, the centre panel of the +Y face.
Panels == {NoPanel, 3, 10}

\* Horizontal mouse movements of a frame, in pixels.
MouseDeltas == {0, -64}
\* ---------------------------------------------------------------------------
\* State
\* ---------------------------------------------------------------------------

VARIABLES
  io,       \* the host's input snapshot of the frame (ImGuiIO)
  g,        \* GImGuizmo
  gizmos,   \* the widgets, by ID
  mem,      \* the host's model matrices, by address
  ret,      \* the value the last call returned
  aborted,  \* an IM_ASSERT has failed
  frame,    \* number of frames started
  call,     \* history: the last call and what it observed
  scope,    \* history: the Begin/End scope that is open or was open last
  drag,     \* history: per gizmo, the last press and the drag it started
  statics,  \* the function statics of the view cube
  views,    \* the host's view matrices, by view cube
  viewHist  \* history: the view cubes called in the frame, who owns what

vars ==
  <<io, g, gizmos, mem, ret, aborted, frame, call, scope, drag, statics, views,
    viewHist>>


\* The program state as the operations take it.
St == [g |-> g, gizmos |-> gizmos, mem |-> mem]

NoCall ==
  [name |-> "none", operation |-> ImGuizmoOperation_None, mode |-> ImGuizmoMode_World,
   addr |-> NullAddr, snap |-> NoSnap, visible |-> FALSE, in |-> <<>>, pre |-> <<>>,
   found |-> ImGuizmoAxisFlags_None, hover_flags |-> ImGuizmoAxisFlags_None,
   pressed |-> FALSE, held |-> FALSE, reversed |-> FALSE, active |-> ImGuizmoAxisFlags_None,
   drawn |-> {}, activeGizmo |-> NullGizmo, changed |-> FALSE,
   activeOperation |-> ImGuizmoOperation_None, cube |-> NoCube, panel |-> NoPanel,
   started |-> FALSE, animated |-> FALSE, dragged |-> FALSE, wasAnimating |-> FALSE,
   viewChanged |-> FALSE]

NoDrag ==
  [on |-> FALSE, operation |-> ImGuizmoOperation_None, flags |-> ImGuizmoAxisFlags_None,
   model |-> IdentityMat, world |-> FALSE, local |-> FALSE, unsnapped |-> FALSE,
   snapped |-> FALSE, snap |-> NoSnap, plane |-> -1, boundIdx |-> -1]

Init ==
  /\ io = [MouseDown0 |-> FALSE, MouseClicked0 |-> FALSE, MouseClicked1 |-> FALSE,
           WindowHovered |-> FALSE, MousePos |-> 100, MouseDown1 |-> FALSE,
           MouseDelta |-> 0]
  /\ g = NewContext
  /\ gizmos = [id \in GizmoIds |-> NewWidget(id)]
  /\ mem = [a \in MatrixAddrs |-> InitialMatrix(a)]
  /\ ret = FALSE
  /\ aborted = FALSE
  /\ frame = 0
  /\ call = NoCall
  /\ scope = [nesting |-> 0, addr |-> NullAddr, id |-> NullGizmo, memAtBegin |-> mem,
              manip |-> FALSE, ops |-> {}, held |-> {}, submitted |-> {},
              widgetsOf |-> [a \in MatrixAddrs |-> {}], viewportSet |-> {},
              stepped |-> {}]
  /\ drag = [id \in GizmoIds |-> NoDrag]
  /\ statics = NewViewStatics
  /\ views = [cube \in Cubes |-> InitialView(cube)]
  /\ viewHist = [viewed |-> {}, dragCubes |-> {}, snapCube |-> NoCube, sameFrames |-> TRUE]

\* ---------------------------------------------------------------------------
\* History bookkeeping
\* ---------------------------------------------------------------------------

\* The scope record after an accepted Begin that made the widget id current.
ScopeAfterBegin(sc, model_matrix, memory, id) ==
  [sc EXCEPT !.nesting = @ + 1, !.addr = model_matrix, !.id = id,
             !.memAtBegin = memory, !.manip = FALSE, !.ops = {}, !.held = {},
             !.submitted = @ \cup {model_matrix},
             !.widgetsOf[model_matrix] = @ \cup {id}]

\* The scope record after an operation call whose result is r.
ScopeAfterOperation(sc, operation, r) ==
  [sc EXCEPT !.ops = @ \cup {operation},
             !.held = @ \cup (IF r.held THEN {operation} ELSE {}),
             !.manip = @ \/ GetCurrentGizmo(r.s).Dirty,
             !.stepped = @ \cup (IF r.pressed \/ r.held THEN {r.s.g.CurrentGizmo}
                                 ELSE {})]

\* The drag records after an operation call on the current gizmo.
DragAfterOperation(dr, s, operation, snap, r) ==
  LET id == s.g.CurrentGizmo
      gizmo == GetCurrentGizmo(r.s)
      world == gizmo.Mode = ImGuizmoMode_World
  IN IF r.pressed
       THEN [dr EXCEPT ![id] = [on |-> TRUE, operation |-> operation,
                                flags |-> r.hover_flags,
                                model |-> s.mem[s.g.LockedModelMatrix],
                                world |-> world,
                                local |-> ~world,
                                unsnapped |-> snap = NoSnap,
                                snapped |-> snap # NoSnap,
                                snap |-> snap,
                                plane |-> r.s.g.Bounds.ActivePlane,
                                boundIdx |-> r.s.g.Bounds.ActiveBoundIdx]]
     ELSE IF dr[id].on /\ dr[id].operation = operation
       THEN [dr EXCEPT ![id].world = @ /\ world,
                       ![id].local = @ /\ ~world,
                       ![id].unsnapped = @ /\ snap = NoSnap,
                       ![id].snapped = @ /\ snap # NoSnap /\ snap = dr[id].snap,
                       ![id].snap = snap]
     ELSE dr

\* Whether End() is about to cancel the manipulation of the current gizmo.
Reversing(s, i) ==
  /\ BitAnd(s.g.ConfigFlags, ImGuizmoConfigFlags_HasReversing) # 0
  /\ i.MouseClicked1
  /\ GetCurrentGizmo(s).ActiveManipulationFlags # ImGuizmoAxisFlags_None

\* ---------------------------------------------------------------------------
\* Actions: the host's frame loop and its calls
\* ---------------------------------------------------------------------------

\* The host starts a frame (ImGui::NewFrame): a new input snapshot.  The left
\* button counts as clicked in the frame it goes down.  Frames start outside
\* Begin/End scopes.
NewFrame(frames, rmbs, hovereds, xs) ==
  /\ ~aborted
  /\ g.LockedModelMatrix = NullAddr
  /\ frame < frames
  /\ \E down \in BOOLEAN, rmb \in rmbs, hovered \in hovereds, x \in xs :
       /\ io' = [MouseDown0 |-> down,
                 MouseClicked0 |-> down /\ ~io.MouseDown0,
                 MouseClicked1 |-> rmb,
                 WindowHovered |-> hovered,
                 MousePos |-> x,
                 MouseDown1 |-> rmb,
                 MouseDelta |-> 0]
       /\ drag' = IF down THEN drag ELSE [id \in GizmoIds |-> [drag[id] EXCEPT !.on = FALSE]]
  /\ frame' = frame + 1
  /\ call' = [NoCall EXCEPT !.name = "NewFrame"]
  /\ scope' = [scope EXCEPT !.submitted = {}, !.stepped = {}]
  /\ UNCHANGED <<g, gizmos, mem, ret, aborted, statics, views, viewHist>>

\* The host calls SetConfigFlags, before the first frame.
SetConfigFlagsCall(choices) ==
  /\ ~aborted
  /\ frame = 0
  /\ \E flags \in choices :
       /\ flags # g.ConfigFlags
       /\ g' = SetConfigFlags(St, flags).g
  /\ call' = [NoCall EXCEPT !.name = "SetConfigFlags"]
  /\ UNCHANGED <<io, gizmos, mem, ret, aborted, frame, scope, drag, statics, views, viewHist>>

\* The host calls SetViewport, between scopes.
SetViewportCall(positions, sizes) ==
  /\ ~aborted
  /\ frame > 0
  /\ g.LockedModelMatrix = NullAddr
  /\ \E position \in positions, size \in sizes :
       /\ g' = SetViewport(St, position, size).g
       /\ g' # g
       /\ scope' = [scope EXCEPT !.viewportSet = {g'.Viewport}]
  /\ call' = [NoCall EXCEPT !.name = "SetViewport"]
  /\ UNCHANGED <<io, gizmos, mem, ret, aborted, frame, drag, statics, views, viewHist>>

\* The host calls Begin, at most once per model matrix and frame.
BeginCall(addrs, modes, locks, visibles) ==
  /\ ~aborted
  /\ frame > 0
  /\ \E model_matrix \in addrs, mode \in modes, locked_axes \in locks,
        visible \in visibles :
       /\ model_matrix \notin scope.submitted
       /\ call' = [NoCall EXCEPT !.name = "Begin", !.addr = model_matrix,
                                 !.mode = mode, !.visible = visible]
       /\ IF BeginAsserts(St, model_matrix)
            THEN \E r \in {Begin(St, io, mode, model_matrix, locked_axes, visible)} :
                    /\ g' = r.s.g
                    /\ gizmos' = r.s.gizmos
                    /\ mem' = r.s.mem
                    /\ ret' = r.ret
                    /\ scope' = ScopeAfterBegin(scope, model_matrix, mem, r.s.g.CurrentGizmo)
                    /\ UNCHANGED aborted
          ELSE /\ aborted' = TRUE
               /\ UNCHANGED <<g, gizmos, mem, ret, scope>>
  /\ UNCHANGED <<io, frame, drag, statics, views, viewHist>>

\* The host calls End.
EndCall ==
  /\ ~aborted
  /\ frame > 0
  /\ IF EndAsserts(St)
       THEN \E r \in {End(St, io)} :
               /\ g' = r.s.g
               /\ gizmos' = r.s.gizmos
               /\ mem' = r.s.mem
               /\ ret' = r.ret
               /\ scope' = [scope EXCEPT !.nesting = @ - 1]
               /\ call' = [NoCall EXCEPT !.name = "End", !.addr = g.LockedModelMatrix,
                                         !.reversed = Reversing(St, io),
                                         !.active = GetCurrentGizmo(St).ActiveManipulationFlags]
               /\ UNCHANGED aborted
     ELSE /\ aborted' = TRUE
          /\ call' = [NoCall EXCEPT !.name = "End"]
          /\ UNCHANGED <<g, gizmos, mem, ret, scope>>
  /\ UNCHANGED <<io, frame, drag, statics, views, viewHist>>

\* The effect of one operation call with result r, inside a scope.
OperationEffect(operation, snap, found, r) ==
  /\ InRange(GetCurrentGizmo(r.s).ModelMatrix)
  /\ g' = r.s.g
  /\ gizmos' = r.s.gizmos
  /\ mem' = r.s.mem
  /\ scope' = ScopeAfterOperation(scope, operation, r)
  /\ drag' = DragAfterOperation(drag, St, operation, snap, r)
  /\ call' = [NoCall EXCEPT !.name = "Operation", !.operation = operation,
                            !.addr = g.LockedModelMatrix, !.snap = snap,
                            !.found = found, !.hover_flags = r.hover_flags,
                            !.pressed = r.pressed, !.held = r.held,
                            !.drawn = r.drawn, !.activeGizmo = g.ActiveGizmo,
                            !.changed = (r.s.gizmos # gizmos \/ r.s.mem # mem),
                            !.active = GetCurrentGizmo(St).ActiveManipulationFlags,
                            !.activeOperation = GetCurrentGizmo(St).ActiveOperation]
  /\ UNCHANGED <<io, ret, aborted, frame, statics, views, viewHist>>

\* An operation may be called once per scope.
CanCall(operation) ==
  /\ ~aborted
  /\ g.LockedModelMatrix # NullAddr
  /\ operation \notin scope.ops

\* The point the mouse ray hits, for an offset from the position of the model.
HitAt(s, model_matrix, offset) == VAdd(s.mem[model_matrix][4], offset)

\* A press on a scale axis handle happens with the mouse over the axis, on its
\* positive side: the ratio of ContinueScale is defined.
ScaleHitOk(s, io_, geo, hit) ==
  LET b == GizmoBehavior(s, io_, ImGuizmoOperation_Scale, FindScaleHover(s, io_, geo))
      s1 == IF b.pressed THEN BeginScale(b.s, io_, hit) ELSE b.s
  IN (b.held /\ HasSingleAxis(b.hover_flags)) => ScaleRatioDenominator(s1) > 0

\* The host calls Translate inside a scope.
TranslateCall(snaps, geos, offsets) ==
  /\ CanCall(ImGuizmoOperation_Translate)
  /\ \E snap \in snaps, geo \in geos, offset \in offsets :
       \E r \in {Translate(St, io, snap, geo, HitAt(St, g.LockedModelMatrix, offset))} :
          OperationEffect(ImGuizmoOperation_Translate, snap,
                          FindTranslationHover(St, io, geo), r)

\* The host calls Rotate inside a scope.
RotateCall(snaps, geos, angles) ==
  /\ CanCall(ImGuizmoOperation_Rotate)
  /\ \E snap \in snaps, geo \in geos, angle \in angles :
       \E r \in {Rotate(St, io, snap, geo, angle)} :
          OperationEffect(ImGuizmoOperation_Rotate, snap,
                          FindRotationHover(St, io, geo), r)

\* The host calls Scale inside a scope.
ScaleCall(snaps, geos, offsets) ==
  /\ CanCall(ImGuizmoOperation_Scale)
  /\ \E snap \in snaps, geo \in geos, offset \in offsets :
       LET hit == HitAt(St, g.LockedModelMatrix, offset)
       IN /\ ScaleHitOk(St, io, geo, hit)
          /\ \E r \in {Scale(St, io, snap, geo, hit)} :
               OperationEffect(ImGuizmoOperation_Scale, snap,
                               FindScaleHover(St, io, geo), r)

\* The host calls BoundsScale inside a scope.
BoundsScaleCall(snaps, anchors, offsets, wilds) ==
  /\ CanCall(ImGuizmoOperation_BoundsScale)
  /\ \E snap \in snaps, anchor \in anchors, offset \in offsets, wild \in wilds :
       \E r \in {BoundsScale(St, io, HostBounds, snap, anchor,
                               HitAt(St, g.LockedModelMatrix, offset), wild)} :
          OperationEffect(ImGuizmoOperation_BoundsScale, snap,
                          FindHoveredBound(St, io, anchor).hover_flags, r)

\* The host calls Manipulate, at most once per model matrix and frame.
ManipulateCall(addrs, modes, operations, snaps, visibles, geos, offsets, angles) ==
  /\ ~aborted
  /\ frame > 0
  /\ \E model_matrix \in addrs, mode \in modes, operation \in operations,
        snap \in snaps, visible \in visibles, geo \in geos, offset \in offsets,
        angle \in angles :
       LET in == [geo |-> geo, hit |-> HitAt(St, model_matrix, offset), angle |-> angle]
       IN /\ model_matrix \notin scope.submitted
          /\ call' = [NoCall EXCEPT !.name = "Manipulate", !.addr = model_matrix,
                                    !.mode = mode, !.operation = operation,
                                    !.snap = snap, !.visible = visible, !.in = in,
                                    !.pre = St]
          /\ IF BeginAsserts(St, model_matrix)
               THEN /\ (operation = ImGuizmoOperation_Scale /\ visible)
                         => ScaleHitOk(Begin(St, io, mode, model_matrix,
                                             ImGuizmoAxisFlags_None, visible).s,
                                       io, geo, in.hit)
                    /\ \E r \in {Manipulate(St, io, mode, operation, model_matrix, snap,
                                            visible, in)} :
                          /\ InRange(r.s.mem[model_matrix])
                          /\ g' = r.s.g
                          /\ gizmos' = r.s.gizmos
                          /\ mem' = r.s.mem
                          /\ ret' = r.ret
                          /\ scope' = [scope EXCEPT !.submitted = @ \cup {model_matrix},
                                                  !.widgetsOf[model_matrix] =
                                                    @ \cup {r.s.g.CurrentGizmo}]
                          /\ UNCHANGED aborted
             ELSE /\ aborted' = TRUE
                  /\ UNCHANGED <<g, gizmos, mem, ret, scope>>
  /\ UNCHANGED <<io, frame, drag, statics, views, viewHist>>


\* The host of the view cubes starts a frame: a new input snapshot with both
\* buttons.  A button counts as clicked in the frame it goes down.
NewFrameView(frames, xs, deltas) ==
  /\ ~aborted
  /\ g.LockedModelMatrix = NullAddr
  /\ frame < frames
  /\ \E down0 \in BOOLEAN, down1 \in BOOLEAN, x \in xs, delta \in deltas :
       /\ io' = [MouseDown0 |-> down0,
                 MouseClicked0 |-> down0 /\ ~io.MouseDown0,
                 MouseClicked1 |-> down1 /\ ~io.MouseDown1,
                 WindowHovered |-> TRUE,
                 MousePos |-> x,
                 MouseDown1 |-> down1,
                 MouseDelta |-> delta]
       /\ viewHist' = [viewHist EXCEPT
                         !.viewed = {},
                         !.dragCubes = IF down1 THEN @ ELSE {},
                         !.sameFrames = @ /\ (frame = 0 \/ viewHist.viewed = Cubes)]
  /\ frame' = frame + 1
  /\ call' = [NoCall EXCEPT !.name = "NewFrame"]
  /\ UNCHANGED <<g, gizmos, mem, ret, aborted, scope, drag, statics, views>>

\* The mouse ray hits a panel only inside the rectangle of the cube, and only
\* a panel of a face that is turned to the camera.
PanelUnderMouse(cube, cube_idx) ==
  cube_idx # NoPanel
    => /\ RectContains(ViewRect(cube), io.MousePos)
       /\ Dot(CubeForward(cube_idx), views[cube].forward) > 0

\* The host calls ViewManipulate, at most once per view cube and frame.
ViewManipulateCall(cubes, panels) ==
  /\ ~aborted
  /\ frame > 0
  /\ \E cube \in cubes, cube_idx \in panels :
       /\ cube \notin viewHist.viewed
       /\ PanelUnderMouse(cube, cube_idx)
       /\ \E r \in {ViewManipulate(statics, io, views[cube], ViewRect(cube), cube_idx,
                                   AnimationStep)} :
            /\ statics' = r.statics
            /\ views' = [views EXCEPT ![cube] = r.view]
            /\ viewHist' = [viewHist EXCEPT
                              !.viewed = @ \cup {cube},
                              !.dragCubes = IF r.pressed /\ io.MouseDown1
                                              THEN @ \cup {cube} ELSE @,
                              !.snapCube = IF r.started THEN cube
                                           ELSE IF ~r.statics.animate THEN NoCube
                                           ELSE @]
            /\ call' = [NoCall EXCEPT !.name = "ViewManipulate", !.cube = cube,
                                      !.panel = cube_idx, !.pressed = r.pressed,
                                      !.held = r.held, !.started = r.started,
                                      !.animated = r.animated, !.dragged = r.dragged,
                                      !.wasAnimating = statics.animate,
                                      !.viewChanged =
                                        ViewAxes(r.view) # ViewAxes(views[cube])]
  /\ UNCHANGED <<io, g, gizmos, mem, ret, aborted, frame, scope, drag>>
\* ---------------------------------------------------------------------------
\* Specifications: hosts that use a part of the interface
\* ---------------------------------------------------------------------------

\* The core handle, or nothing, under the mouse.
CoreGeos == {NoGeo, [NoGeo EXCEPT !.core = TRUE]}

\* The two model matrices of the host of NextScope.
ScopeAddrs == {<<0, 4096>>, <<0, 8192>>}

\* A host with two models that translates them by their core handles, in
\* World mode, nothing locked, with the mouse over the viewport.
NextScope ==
  \/ NewFrame(MaxFrames, BOOLEAN, {TRUE}, {100})
  \/ SetConfigFlagsCall(ConfigChoices)
  \/ BeginCall(ScopeAddrs \cup {NullAddr}, {ImGuizmoMode_World},
               {ImGuizmoAxisFlags_None}, {TRUE})
  \/ TranslateCall({NoSnap}, CoreGeos, {<<0, 0, 0>>, <<One, 0, 0>>})
  \/ EndCall

SpecScope == Init /\ [][NextScope]_vars

\* The X axis handle (of translation and scale, and of rotation), or nothing,
\* under the mouse.
ManipulateGeos == {NoGeo, [NoGeo EXCEPT !.axes = {0}, !.rotAxes = {0}]}

\* Number of frames of the host that uses Manipulate.
ManipulateFrames == 2

\* A host with one model, rotated and scaled, that drives the gizmo with
\* Manipulate.
NextManipulate ==
  \/ NewFrame(ManipulateFrames, BOOLEAN, {TRUE}, {100})
  \/ SetConfigFlagsCall(ConfigChoices)
  \/ ManipulateCall({<<0, 8192>>}, Modes, Operations, Snaps, BOOLEAN, ManipulateGeos,
                    {<<One, 0, 0>>, <<2 * One, 0, 0>>}, {90})

SpecManipulate == Init /\ [][NextManipulate]_vars

\* Number of frames of the hosts that use one operation.
DragFrames == 3

\* Handles of the translation gizmo under the mouse: none, the core, the X and
\* Z axes, the XY plane's square (plane index 2).
TranslateGeos ==
  {NoGeo, [NoGeo EXCEPT !.core = TRUE], [NoGeo EXCEPT !.axes = {0}],
   [NoGeo EXCEPT !.axes = {2}], [NoGeo EXCEPT !.planes = {2}]}

\* Hits of the mouse ray for the translating host.
TranslateOffsets == {<<0, 0, 0>>, <<One, One, One>>}

\* A host with one model, rotated and scaled, that translates it, in either
\* mode, with and without locked axes, with and without snap.
NextTranslate ==
  \/ NewFrame(DragFrames, {FALSE}, {TRUE}, {100})
  \/ BeginCall({<<0, 8192>>}, Modes, LockChoices, {TRUE})
  \/ TranslateCall(Snaps, TranslateGeos, TranslateOffsets)
  \/ EndCall

SpecTranslate == Init /\ [][NextTranslate]_vars

\* Handles of the scale gizmo under the mouse: none, the core, the X and Z axes.
ScaleGeos ==
  {NoGeo, [NoGeo EXCEPT !.core = TRUE], [NoGeo EXCEPT !.axes = {0}],
   [NoGeo EXCEPT !.axes = {2}]}

\* Hits of the mouse ray for the scaling host.
ScaleOffsets == {<<One, One, One>>, <<2 * One, 2 * One, 2 * One>>}

\* A host with one model, rotated and scaled, that scales it, in either mode,
\* with and without locked axes, with and without snap; the mouse is at one
\* of two places of the viewport.
NextScale ==
  \/ NewFrame(DragFrames, {FALSE}, {TRUE}, {100, 150})
  \/ BeginCall({<<0, 8192>>}, Modes, LockChoices, {TRUE})
  \/ ScaleCall(Snaps, ScaleGeos, ScaleOffsets)
  \/ EndCall

SpecScale == Init /\ [][NextScale]_vars

\* Handles of the rotation gizmo under the mouse: none, the screen ring, the
\* ring of the X axis.
RotateGeos == {NoGeo, [NoGeo EXCEPT !.ring = TRUE], [NoGeo EXCEPT !.rotAxes = {0}]}

\* A host with one model that rotates it.
NextRotate ==
  \/ NewFrame(DragFrames, {FALSE}, {TRUE}, {100})
  \/ BeginCall({<<0, 8192>>}, Modes, LockChoices, {TRUE})
  \/ RotateCall(Snaps, RotateGeos, Angles)
  \/ EndCall

SpecRotate == Init /\ [][NextRotate]_vars

\* A host with one model that scales it by its bounds.
NextBounds ==
  \/ NewFrame(DragFrames, {FALSE}, {TRUE}, {100})
  \/ BeginCall({<<0, 8192>>}, Modes, LockChoices, {TRUE})
  \/ BoundsScaleCall(Snaps, Anchors, ScaleOffsets, WildVecs)
  \/ EndCall

SpecBounds == Init /\ [][NextBounds]_vars


\* Two model matrices whose addresses differ in the high 32 bits only.
AliasAddrs == {<<0, 4096>>, <<1, 4096>>}

\* A host whose two models lie 4 GiB apart, and that translates them by their
\* core handles.
NextAlias ==
  \/ NewFrame(DragFrames, {FALSE}, {TRUE}, {100})
  \/ BeginCall(AliasAddrs, {ImGuizmoMode_World}, {ImGuizmoAxisFlags_None}, {TRUE})
  \/ TranslateCall({NoSnap}, CoreGeos, {<<0, 0, 0>>, <<One, 0, 0>>})
  \/ EndCall

SpecAlias == Init /\ [][NextAlias]_vars

\* A host with one model that sets the viewport itself, to a rectangle beside
\* the content region of its window, and translates the model by its core
\* handle; the mouse is inside the content region or inside that rectangle.
NextViewport ==
  \/ NewFrame(DragFrames, {FALSE}, {TRUE}, {100, 300})
  \/ SetViewportCall({250}, {100})
  \/ BeginCall({<<0, 4096>>}, {ImGuizmoMode_World}, {ImGuizmoAxisFlags_None}, {TRUE})
  \/ TranslateCall({NoSnap}, CoreGeos, {<<0, 0, 0>>, <<One, 0, 0>>})
  \/ EndCall

SpecViewport == Init /\ [][NextViewport]_vars

\* The core handle or the X axis handle (of translation, and of rotation), or
\* nothing, under the mouse.
CloakGeos == {NoGeo, [NoGeo EXCEPT !.core = TRUE], [NoGeo EXCEPT !.rotAxes = {0}]}

\* A host with two models that sets CloakOnManipulate and translates and
\* rotates the models, not submitting every model in every frame.
NextCloak ==
  \/ NewFrame(DragFrames, {FALSE}, {TRUE}, {100})
  \/ SetConfigFlagsCall({ImGuizmoConfigFlags_CloakOnManipulate})
  \/ BeginCall(ScopeAddrs, {ImGuizmoMode_World}, {ImGuizmoAxisFlags_None}, {TRUE})
  \/ TranslateCall({NoSnap}, CloakGeos, {<<One, 0, 0>>})
  \/ RotateCall({NoSnap}, CloakGeos, {90})
  \/ EndCall

SpecCloak == Init /\ [][NextCloak]_vars

\* The flag words of the host that locks axes.
HideConfigChoices ==
  {ImGuizmoConfigFlags_None, ImGuizmoConfigFlags_HideLocked,
   ImGuizmoConfigFlags_CloakOnManipulate}

\* The locked_axes arguments of the host that locks axes.
HideLocks == {ImGuizmoAxisFlags_X, ImGuizmoAxisFlags_XY, ImGuizmoAxisFlags_ALL}

\* The Z axis handle (of translation and scale), the ring around X, or nothing,
\* under the mouse.
HideGeos == {NoGeo, [NoGeo EXCEPT !.axes = {2}], [NoGeo EXCEPT !.rotAxes = {0}]}

\* A host with one model that locks axes and translates, rotates and scales
\* the model.
NextHide ==
  \/ NewFrame(ManipulateFrames, {FALSE}, {TRUE}, {100})
  \/ SetConfigFlagsCall(HideConfigChoices)
  \/ BeginCall({<<0, 4096>>}, {ImGuizmoMode_World}, HideLocks, {TRUE})
  \/ TranslateCall({NoSnap}, HideGeos, {<<One, One, One>>})
  \/ RotateCall({NoSnap}, HideGeos, {90})
  \/ ScaleCall({NoSnap}, HideGeos, {<<One, One, One>>})
  \/ EndCall

SpecHide == Init /\ [][NextHide]_vars

\* Nothing under the mouse, or the core circle, the screen ring and the X
\* handles of all operations at once.
OverlappingGeos ==
  {NoGeo, [core |-> TRUE, planes |-> {}, axes |-> {0}, rotAxes |-> {0}, ring |-> TRUE]}

\* A host with one model that calls several operations in each scope, in any
\* order.
NextOperations ==
  \/ NewFrame(DragFrames, {FALSE}, {TRUE}, {100})
  \/ BeginCall({<<0, 4096>>}, {ImGuizmoMode_World}, {ImGuizmoAxisFlags_None}, {TRUE})
  \/ TranslateCall({NoSnap}, OverlappingGeos, {<<One, One, One>>})
  \/ RotateCall({NoSnap}, OverlappingGeos, {90})
  \/ ScaleCall({NoSnap}, OverlappingGeos, {<<One, One, One>>})
  \/ BoundsScaleCall({NoSnap}, {NoAnchor, [plane |-> 2, idx |-> 0, outter |-> TRUE]},
                     {<<One, One, One>>}, {OneVec})
  \/ EndCall

SpecOperations == Init /\ [][NextOperations]_vars

\* Bound anchors under the mouse: none, a corner of plane YZ.
CornerAnchors == {NoAnchor, [plane |-> 0, idx |-> 0, outter |-> TRUE]}

\* A host with two models that scales each by its bounds, one scope per model
\* and frame.
NextBoundsPair ==
  \/ NewFrame(DragFrames, {FALSE}, {TRUE}, {100})
  \/ BeginCall(ScopeAddrs, {ImGuizmoMode_World}, {ImGuizmoAxisFlags_None}, {TRUE})
  \/ BoundsScaleCall({NoSnap}, CornerAnchors, ScaleOffsets, {OneVec})
  \/ EndCall

SpecBoundsPair == Init /\ [][NextBoundsPair]_vars

\* Frames of the host of the view cubes.
ViewFrames == 3

\* A host with two view cubes side by side, each with its own view matrix; the
\* mouse is over the first or over the second.
NextView ==
  \/ NewFrameView(ViewFrames, {50, 150}, MouseDeltas)
  \/ ViewManipulateCall(Cubes, Panels)

SpecView == Init /\ [][NextView]_vars
\* ---------------------------------------------------------------------------
\* Properties
\* ---------------------------------------------------------------------------

\* The matrices of the host after an End that has written the result back.
WrittenBack == [scope.memAtBegin EXCEPT ![scope.addr] = gizmos[scope.id].ModelMatrix]

\* C1, as stated: End() returns true and writes the result into the caller's
\* matrix exactly when an operation call between Begin and End marked the
\* gizmo dirty.
C1_UpdatedIffManipulated ==
  (call.name = "End" /\ ~aborted)
    => /\ ret <=> scope.manip
       /\ mem = IF scope.manip THEN WrittenBack ELSE scope.memAtBegin

\* C1, amended: End() returns true and copies the gizmo's matrix into the
\* caller's matrix exactly when an operation call between Begin and End marked
\* the gizmo dirty or End() itself cancels the active manipulation; otherwise
\* it returns false and every matrix of the host is as it was at Begin.
C1_UpdatedIffManipulatedOrReversed ==
  (call.name = "End" /\ ~aborted)
    => /\ ret <=> (scope.manip \/ call.reversed)
       /\ mem = IF ret THEN WrittenBack ELSE scope.memAtBegin
       /\ ~gizmos[scope.id].Dirty

\* An End that cancels a manipulation no operation call of its scope touched.
C1_Witness ==
  /\ call.name = "End" /\ ~aborted
  /\ ret /\ call.reversed /\ ~scope.manip
  /\ mem = WrittenBack

\* C2: with HasReversing, an End() that sees a right click and an active
\* manipulation writes back the matrix the caller's model had when that
\* manipulation was pressed, returns true and clears ActiveManipulationFlags.
C2_CancelRestoresPressMatrix ==
  (call.name = "End" /\ ~aborted /\ call.reversed)
    => /\ ret
       /\ gizmos[scope.id].ActiveManipulationFlags = ImGuizmoAxisFlags_None
       /\ mem[scope.addr] = drag[scope.id].model

\* C3: scopes never nest.  LockedModelMatrix is non-null exactly between an
\* accepted Begin and the next accepted End; a Begin inside a scope and an End
\* outside one fail their assertion.
C3_ScopesNeverNest ==
  /\ scope.nesting \in {0, 1}
  /\ scope.nesting = 1 <=> g.LockedModelMatrix # NullAddr
  /\ g.LockedModelMatrix # NullAddr => g.LockedModelMatrix = scope.addr
  /\ aborted => \/ call.name = "Begin" /\ (call.addr = NullAddr \/ scope.nesting = 1)
                \/ call.name = "End" /\ scope.nesting = 0

\* A Begin attempted inside an open scope has failed its assertion.
C3_Witness ==
  /\ aborted /\ call.name = "Begin" /\ call.addr # NullAddr
  /\ scope.nesting = 1 /\ g.LockedModelMatrix # NullAddr

\* The state after the operation call Manipulate selects, made on state s with
\* the inputs of call c.
SelectedOperation(s, c) ==
  IF c.operation = ImGuizmoOperation_Translate
    THEN Translate(s, io, c.snap, c.in.geo, c.in.hit).s
  ELSE IF c.operation = ImGuizmoOperation_Rotate
    THEN Rotate(s, io, c.snap, c.in.geo, c.in.angle).s
  ELSE IF c.operation = ImGuizmoOperation_Scale
    THEN Scale(s, io, c.snap, c.in.geo, c.in.hit).s
  ELSE s

\* C4: every accepted Manipulate call leaves the state and returns the value
\* that Begin with no locked axes, then (only if Begin returned true) the
\* selected operation call, then End leave and return; no scope is left open.
C4_ManipulateIsBeginOperationEnd ==
  (call.name = "Manipulate" /\ ~aborted)
    => LET b == Begin(call.pre, io, call.mode, call.addr, ImGuizmoAxisFlags_None,
                      call.visible)
           o == IF b.ret THEN SelectedOperation(b.s, call) ELSE b.s
           e == End(o, io)
       IN /\ b.ret = call.visible
          /\ b.s.gizmos[GizmoIdOf(call.addr)].LockedAxesFlags = ImGuizmoAxisFlags_None
          /\ St = e.s
          /\ ret = e.ret
          /\ g.LockedModelMatrix = NullAddr

\* A Manipulate call whose Translate moved the model, and End reported it.
C4_Witness ==
  /\ call.name = "Manipulate" /\ ~aborted
  /\ call.operation = ImGuizmoOperation_Translate /\ call.visible
  /\ ret
  /\ mem[call.addr] # call.pre.mem[call.addr]
  /\ g.LockedModelMatrix = NullAddr

\* The last call was an End that wrote a matrix for a step of a drag of the
\* given operation: the gizmo was pressed with that operation, the left button
\* has been down in every frame since, and the operation call of this scope
\* held the manipulation.
WrittenInDrag(operation) ==
  /\ call.name = "End" /\ ~aborted /\ ret /\ ~call.reversed
  /\ drag[scope.id].on
  /\ drag[scope.id].operation = operation
  /\ operation \in scope.held

\* Whether axis i (1..3) is in the locked_axes of the current scope.
IsLocked(i) ==
  BitAnd(gizmos[scope.id].LockedAxesFlags, AxisToFlag(i - 1, FALSE)) # 0

\* C5: every matrix written during a translate drag has, on each locked axis,
\* the translation component the model had when the drag was pressed.
C5_TranslateKeepsLockedAxes ==
  WrittenInDrag(ImGuizmoOperation_Translate)
    => \A i \in 1..3 :
         IsLocked(i) => mem[scope.addr][4][i] = drag[scope.id].model[4][i]

\* A core drag with X and Y locked has moved the model along Z.
C5_Witness ==
  /\ WrittenInDrag(ImGuizmoOperation_Translate)
  /\ gizmos[scope.id].LockedAxesFlags = ImGuizmoAxisFlags_XY
  /\ drag[scope.id].flags = ImGuizmoAxisFlags_ALL
  /\ mem[scope.addr][4][3] # drag[scope.id].model[4][3]

\* The displacement of the model since the press, in the frame the snap is
\* applied in: the model's normalized axes in Local mode and for a core drag,
\* the world axes otherwise.
SnapFrameDisplacement ==
  LET d == VSub(mem[scope.addr][4], drag[scope.id].model[4])
  IN IF drag[scope.id].local \/ drag[scope.id].flags = ImGuizmoAxisFlags_ALL
       THEN MulDir(InverseOrtho(NormalizeAxes(drag[scope.id].model)), d)
     ELSE d

\* C9: in every matrix written during a translate drag made with one snap
\* vector and in one mode, the displacement since the press is, along each
\* axis i of the snapping frame with snap[i] > epsilon, a multiple of snap[i].
C9_SnappedDisplacementIsMultiple ==
  (/\ WrittenInDrag(ImGuizmoOperation_Translate)
   /\ drag[scope.id].snapped
   /\ drag[scope.id].world \/ drag[scope.id].local)
    => \A i \in 1..3 :
         drag[scope.id].snap[i] > kEpsilon
           => SnapFrameDisplacement[i] % drag[scope.id].snap[i] = 0

\* C10: a single-axis translate drag made in World mode without snap leaves
\* the model as it was at the press, except for the translation component of
\* the dragged axis.
C10_WorldAxisDragMovesOneComponent ==
  (/\ WrittenInDrag(ImGuizmoOperation_Translate)
   /\ drag[scope.id].world /\ drag[scope.id].unsnapped
   /\ HasSingleAxis(drag[scope.id].flags))
    => LET a == GetAxisIdx(drag[scope.id].flags, FALSE) + 1
       IN mem[scope.addr]
            = [drag[scope.id].model EXCEPT ![4][a] = mem[scope.addr][4][a]]

\* An X axis drag in World mode has moved the rotated and scaled model.
C10_Witness ==
  /\ WrittenInDrag(ImGuizmoOperation_Translate)
  /\ drag[scope.id].world /\ drag[scope.id].unsnapped
  /\ drag[scope.id].flags = ImGuizmoAxisFlags_X
  /\ mem[scope.addr][4][1] # drag[scope.id].model[4][1]
  /\ mem[scope.addr][1] # <<One, 0, 0>>

\* C6: in every step of a scale drag the factor of each locked axis is
\* exactly 1, and in every matrix written during the drag the model column of
\* each locked axis has the length it had when the drag was pressed.
C6_ScaleKeepsLockedAxes ==
  /\ (/\ call.name = "Operation" /\ call.operation = ImGuizmoOperation_Scale
      /\ call.held)
       => \A i \in 1..3 : IsLocked(i) => gizmos[scope.id].Scale[i] = One
  /\ WrittenInDrag(ImGuizmoOperation_Scale)
       => \A i \in 1..3 :
            IsLocked(i)
              => Length(mem[scope.addr][i]) = Length(drag[scope.id].model[i])

\* A uniform scale drag with X and Y locked has changed the length of the
\* model's Z column.
C6_Witness ==
  /\ WrittenInDrag(ImGuizmoOperation_Scale)
  /\ gizmos[scope.id].LockedAxesFlags = ImGuizmoAxisFlags_XY
  /\ drag[scope.id].flags = ImGuizmoAxisFlags_ALL
  /\ Length(mem[scope.addr][3]) # Length(drag[scope.id].model[3])

\* C7: Rotate never finds the rotation handle of a locked axis under the
\* mouse, whether the axis is locked alone or together with others, so no
\* press starts a rotation with it.
C7_LockedRotationHandleNeverHovered ==
  (call.name = "Operation" /\ call.operation = ImGuizmoOperation_Rotate)
    => \A i \in 1..3 :
         IsLocked(i)
           => /\ call.found # AxisToFlag(i - 1, FALSE)
              /\ call.pressed => call.hover_flags # AxisToFlag(i - 1, FALSE)

\* C8: no bound anchor that scales along a locked axis starts a drag, and no
\* matrix written during a bounds-scale drag changes the length of the model
\* column of a locked axis.
C8_BoundsScaleKeepsLockedAxes ==
  /\ (/\ call.name = "Operation" /\ call.operation = ImGuizmoOperation_BoundsScale
      /\ call.pressed)
       => \A i \in 1..3 :
            IsLocked(i) => BitAnd(call.hover_flags, AxisToFlag(i - 1, FALSE)) = 0
  /\ WrittenInDrag(ImGuizmoOperation_BoundsScale)
       => \A i \in 1..3 :
            IsLocked(i)
              => Length(mem[scope.addr][i]) = Length(drag[scope.id].model[i])


\* ---------------------------------------------------------------------------
\* Gizmo identity and viewport
\* ---------------------------------------------------------------------------

\* C11: a gizmo is bound to its model matrix.  Every Begin with one address
\* resolves to one widget, and Begins with two different addresses never
\* resolve to the same widget, whatever the two 64-bit addresses are.
C11_AddressBindsOneWidget ==
  \A a \in MatrixAddrs :
     /\ Cardinality(scope.widgetsOf[a]) <= 1
     /\ \A b \in MatrixAddrs \ {a} : scope.widgetsOf[a] \cap scope.widgetsOf[b] = {}

\* C12: a viewport set with SetViewport stays in effect.  Inside every scope
\* that follows the call, the viewport of the context, which CanActivate, the
\* ray cast and the projection read, is the rectangle that was set.
C12_SetViewportStaysInEffect ==
  g.LockedModelMatrix # NullAddr => \A rect \in scope.viewportSet : g.Viewport = rect

\* ---------------------------------------------------------------------------
\* Rendering
\* ---------------------------------------------------------------------------

\* The handles an operation has, as <<shape, axis>>.
HandlesOf(operation) ==
  CASE operation = ImGuizmoOperation_Translate ->
         ({"arrow", "plane"} \X Axes) \cup {<<"core", -1>>}
    [] operation = ImGuizmoOperation_Rotate ->
         ({"ring"} \X Axes) \cup {<<"screen ring", -1>>}
    [] operation = ImGuizmoOperation_Scale ->
         ({"scale handle"} \X Axes) \cup {<<"core", -1>>}
    [] OTHER -> {}

\* The handles the last operation call has drawn, as <<shape, axis>>.
DrawnHandles == {<<h.shape, h.axis>> : h \in call.drawn}

\* The ring a rotation started with the manipulation flags drags.
DraggedRing(flags) ==
  IF HasSingleAxis(flags) THEN {<<"ring", GetAxisIdx(flags, FALSE)>>}
  ELSE {<<"screen ring", -1>>}

\* C13: with CloakOnManipulate set, an operation called on a gizmo that is
\* being manipulated (the left button down in every frame since the press)
\* draws none of its handles, Rotate at most the ring that is dragged; called
\* on a gizmo that is not being manipulated it draws all its handles.
C13_CloakedExactlyWhileManipulated ==
  (/\ call.name = "Operation"
   /\ BitAnd(g.ConfigFlags, ImGuizmoConfigFlags_CloakOnManipulate) # 0)
    => IF drag[scope.id].on
         THEN IF call.operation = ImGuizmoOperation_Rotate
                 /\ drag[scope.id].operation = ImGuizmoOperation_Rotate
                THEN DrawnHandles \subseteq DraggedRing(drag[scope.id].flags)
              ELSE DrawnHandles = {}
       ELSE DrawnHandles = HandlesOf(call.operation)

\* The handles of an operation that belong to locked axes, as <<shape, axis>>:
\* arrows, scale handles and rings of locked axes, planes that contain a locked
\* axis, core and screen ring when all axes are locked.
LockedHandles(operation, locked) ==
  {h \in HandlesOf(operation) :
     CASE h[1] = "plane" -> BitAnd(locked, PlaneToFlags(h[2])) # 0
       [] h[1] \in {"core", "screen ring"} -> locked = ImGuizmoAxisFlags_ALL
       [] OTHER -> BitAnd(locked, AxisToFlag(h[2], FALSE)) # 0}

\* The handles of locked axes of the operation called last.
LockedHandlesOfCall == LockedHandles(call.operation, gizmos[scope.id].LockedAxesFlags)

\* C14 as stated: with HideLocked set no handle of a locked axis is drawn;
\* without it every handle of a locked axis is drawn, in the Inactive colour.
C14_LockedHandlesHiddenOrInactive ==
  call.name = "Operation"
    => IF BitAnd(g.ConfigFlags, ImGuizmoConfigFlags_HideLocked) # 0
         THEN DrawnHandles \cap LockedHandlesOfCall = {}
       ELSE \A h \in LockedHandlesOfCall : Handle(h[1], h[2], "Inactive") \in call.drawn

\* C14, amended: with HideLocked set no handle of a locked axis is drawn;
\* without it every handle of a locked axis that is drawn is drawn in the
\* Inactive colour, and all of them are drawn unless the operation is cloaked
\* (CloakOnManipulate set and a manipulation of the gizmo active).
C14_LockedHandlesHiddenOrInactiveUnlessCloaked ==
  call.name = "Operation"
    => IF BitAnd(g.ConfigFlags, ImGuizmoConfigFlags_HideLocked) # 0
         THEN DrawnHandles \cap LockedHandlesOfCall = {}
       ELSE /\ \A h \in call.drawn :
                 <<h.shape, h.axis>> \in LockedHandlesOfCall => h.color = "Inactive"
            /\ NotCloaked(St) => LockedHandlesOfCall \subseteq DrawnHandles

\* A locked ring is hovered and pressed, and drawn in the Inactive colour.
C14_Witness ==
  /\ call.name = "Operation"
  /\ call.operation = ImGuizmoOperation_Rotate
  /\ g.ConfigFlags = ImGuizmoConfigFlags_None
  /\ gizmos[scope.id].LockedAxesFlags = ImGuizmoAxisFlags_XY
  /\ call.hover_flags = ImGuizmoAxisFlags_X
  /\ Handle("ring", 0, "Inactive") \in call.drawn

\* ---------------------------------------------------------------------------
\* Manipulations: start, end, ownership
\* ---------------------------------------------------------------------------

\* C15: a manipulation starts only with a left click over a handle of the
\* gizmo, the window hovered and the mouse inside the viewport, and a step of
\* a manipulation is applied only while the left button has been down in
\* every frame since the press.
C15_ManipulationNeedsClickOnHandle ==
  call.name = "Operation"
    => /\ call.pressed => /\ io.MouseClicked0
                          /\ call.found # ImGuizmoAxisFlags_None
                          /\ call.found = call.hover_flags
       /\ call.held => /\ io.MouseDown0
                       /\ drag[scope.id].on
                       /\ drag[scope.id].operation = call.operation

\* C16: at most one gizmo is manipulated at a time.  In no frame do two
\* different gizmos get a press or a held step, and an operation call on a
\* gizmo made while g.ActiveGizmo is another gizmo sees hover flags None and
\* changes no gizmo and no matrix.
C16_OneGizmoManipulatedAtATime ==
  /\ Cardinality(scope.stepped) <= 1
  /\ (/\ call.name = "Operation"
      /\ call.activeGizmo # NullGizmo
      /\ call.activeGizmo # scope.id)
       => /\ call.hover_flags = ImGuizmoAxisFlags_None
          /\ ~call.pressed /\ ~call.held
          /\ ~call.changed

\* The mouse is over a handle of a gizmo and the button is clicked while
\* another gizmo is active: the call is refused.
C16_Witness ==
  /\ call.name = "Operation"
  /\ call.activeGizmo # NullGizmo
  /\ call.activeGizmo # scope.id
  /\ call.found # ImGuizmoAxisFlags_None
  /\ io.MouseClicked0
  /\ Cardinality(scope.stepped) = 1

\* C17: of the operations called on a gizmo in one scope at most one reports
\* pressed or held.  An operation called while another operation owns the
\* manipulation of the gizmo sees hover flags None, and a click over a handle
\* of an operation, no operation owning the manipulation, is a press of that
\* operation: of overlapping handles the one of the operation called first.
C17_OneOperationOwnsManipulation ==
  /\ Cardinality(scope.held) <= 1
  /\ call.name = "Operation"
       => /\ call.pressed => scope.held = {call.operation}
          /\ (/\ call.active # ImGuizmoAxisFlags_None
              /\ call.activeOperation # call.operation)
               => /\ call.hover_flags = ImGuizmoAxisFlags_None
                  /\ ~call.pressed /\ ~call.held
          /\ (/\ call.active = ImGuizmoAxisFlags_None
              /\ call.found # ImGuizmoAxisFlags_None
              /\ io.MouseClicked0)
               => call.pressed

\* Two operations were called over overlapping handles in the frame of a
\* click: the first was pressed, the second saw nothing.
C17_Witness ==
  /\ call.name = "Operation"
  /\ io.MouseClicked0
  /\ call.found # ImGuizmoAxisFlags_None
  /\ call.hover_flags = ImGuizmoAxisFlags_None
  /\ Cardinality(scope.ops) >= 2
  /\ Cardinality(scope.held) = 1
  /\ call.operation \notin scope.held

\* C18: g.ActiveGizmo is the gizmo that is being manipulated.  When End
\* returns, g.ActiveGizmo is null or points to a gizmo whose
\* ActiveManipulationFlags and ActiveOperation are both different from None.
C18_ActiveGizmoIsManipulated ==
  (call.name = "End" /\ ~aborted /\ g.ActiveGizmo # NullGizmo)
    => /\ gizmos[g.ActiveGizmo].ActiveManipulationFlags # ImGuizmoAxisFlags_None
       /\ gizmos[g.ActiveGizmo].ActiveOperation # ImGuizmoOperation_None

\* C19: the reference model matrix of a gizmo does not change while the gizmo
\* is manipulated.  From the press on, as long as the left button stays down,
\* SourceModelMatrix is the matrix it was at the press.
C19_SourceModelMatrixKeptWhileManipulating ==
  \A id \in GizmoIds :
     (drag[id].on /\ gizmos[id].ActiveManipulationFlags # ImGuizmoAxisFlags_None)
       => gizmos[id].SourceModelMatrix = drag[id].model

\* C20: during a translate drag a non-zero delta is applied.  After a
\* Translate call that was held, whose delta (kept in LastTranslationDelta)
\* is not zero, the gizmo is dirty and the translation of its result matrix
\* is the translation of the caller's matrix plus the delta, locked
\* components excepted.
C20_NonZeroTranslationDeltaIsApplied ==
  (/\ call.name = "Operation"
   /\ call.operation = ImGuizmoOperation_Translate
   /\ call.held
   /\ gizmos[scope.id].LastTranslationDelta # ZeroVec)
    => /\ gizmos[scope.id].Dirty
       /\ \A i \in 1..3 :
            ~IsLocked(i)
              => gizmos[scope.id].ModelMatrix[4][i]
                   = mem[scope.addr][4][i] + gizmos[scope.id].LastTranslationDelta[i]

\* ---------------------------------------------------------------------------
\* Bounds-scale drags
\* ---------------------------------------------------------------------------

\* C21: in every BoundsScale call that continues a bounds-scale drag of a
\* gizmo (the button has been down since the press of that drag),
\* g.Bounds.ActivePlane and g.Bounds.ActiveBoundIdx are the plane and the
\* anchor index captured at the press, whatever scopes of other gizmos ran in
\* between.
C21_BoundsDragKeepsPlaneAndAnchor ==
  (/\ call.name = "Operation"
   /\ call.operation = ImGuizmoOperation_BoundsScale
   /\ call.held
   /\ drag[scope.id].on
   /\ drag[scope.id].operation = ImGuizmoOperation_BoundsScale)
    => /\ g.Bounds.ActivePlane = drag[scope.id].plane
       /\ g.Bounds.ActiveBoundIdx = drag[scope.id].boundIdx

\* ---------------------------------------------------------------------------
\* View cube
\* ---------------------------------------------------------------------------

\* C22: after a ViewManipulate call on a cube whose drag is held (the right
\* button has been down since a press over that cube) no snap animation is
\* running and none was started in the call; and a call starts a snap
\* animation only with a press while a panel is hovered and the drag is not
\* held.
C22_DragAndSnapExcludeEachOther ==
  call.name = "ViewManipulate"
    => /\ (call.cube \in viewHist.dragCubes => ~statics.animate /\ ~call.started)
       /\ (call.started => /\ call.pressed
                           /\ call.panel # NoPanel
                           /\ call.cube \notin viewHist.dragCubes)

\* A call in which the held drag stopped a running snap animation.
C22_Witness ==
  /\ call.name = "ViewManipulate"
  /\ call.cube \in viewHist.dragCubes
  /\ call.wasAnimating
  /\ ~statics.animate

\* C23: with both view cubes called in every frame, a ViewManipulate call
\* changes the view matrix passed to it only by a snap animation that a panel
\* click on its own cube started, or by a drag whose press was over its own
\* cube.
C23_ViewCubesAreIndependent ==
  (/\ call.name = "ViewManipulate"
   /\ call.viewChanged
   /\ viewHist.sameFrames)
    => /\ (call.animated => viewHist.snapCube = call.cube)
       /\ (call.dragged => call.cube \in viewHist.dragCubes)
====
